---- MODULE Spec2Model ----
(***************************************************************************)
(* Model of the prediction aggregation and the project management of      *)
(* cc-backend:                                                             *)
(*   app/models/prediction.py, app/repositories/prediction_repository.py,  *)
(*   app/repositories/project_repository.py,                               *)
(*   app/services/prediction_processor.py,                                 *)
(*   app/services/prediction_service.py,                                   *)
(*   app/models/project.py, app/services/project_service.py,               *)
(*   app/services/cache_service.py,                                        *)
(*   app/services/count_addition_service.py.                               *)
(*                                                                         *)
(* Datetimes are UTC instants in whole seconds (to_utc reads a naive       *)
(* datetime as UTC).  numpy floats are modelled as exact rationals         *)
(* <<numerator, denominator>> with a positive denominator, kept in lowest  *)
(* terms.  A Python call that may raise is modelled by a record            *)
(* [raised |-> exception name or "", val |-> returned value].              *)
(*                                                                         *)
(* Specifications:                                                         *)
(*   Spec        a request from its body to its response, through          *)
(*               AggregateTimeSeriesRequest, get_prediction_service,       *)
(*               aggregate_time_series and the repository it calls;        *)
(*   SpecAgg     steps 4 to 10 of aggregate_time_series applied to every   *)
(*               list of PredictionData a fetch of the window can return;  *)
(*   SpecSmooth  apply_moving_average applied to every small series;       *)
(*   SpecInterp  one interpolation function of                             *)
(*               create_interpolation_functions evaluated at one time;     *)
(*   SpecFetch   aggregate_time_series of a service whose camera positions *)
(*               carry enable_masking, on a store whose queries may fail;  *)
(*   SpecConc    two requests whose steps are taken in any order;          *)
(*   SpecSum     steps 8 to 10 for the two cameras of one area;            *)
(*   SpecSchedule  a Camera, its validation and get_active_model;          *)
(*   SpecProject   one caller awaiting ProjectService methods in turn;     *)
(*   SpecMutations two callers each awaiting one ProjectService method;    *)
(*   SpecRows    _process_camera_query applied to every small query result;*)
(*   SpecGather  the concurrent fetches of _retrieve_all_predictions;      *)
(*   SpecLegacy  CountAdditionService.__call__ and aggregate_time_series   *)
(*               on the same predictions.                                  *)
(***************************************************************************)
EXTENDS Integers, Sequences, FiniteSets, TLC

\* ------------------------------------------------------------------ bounds
MaxTick == 4          \* samples lie on the instants 15, 30, .. 15*MaxTick
MaxSamples == 2       \* samples of one camera position in a fetched window
MaxStoreSamples == 1  \* stored samples per camera position
MaxHalf == 2          \* largest half_moving_avg_size of a request
MaxLookbackTicks == 8 \* largest lookback_hours of a request, in 1/240 hour
MaxSeriesLen == 3     \* longest series handed to apply_moving_average alone
MaxFetchSamples == 1  \* stored samples per camera position when every query is executed
MaxInterpSamples == 3 \* samples of the camera whose interpolation function is evaluated alone
MaxTimeOfDay == 3     \* times of day are 0 .. MaxTimeOfDay
MaxSchedules == 2     \* model schedules of one camera
MaxConfigs == 2       \* camera configurations of one area
MaxRows == 2          \* rows one query of a camera position returns

\* ------------------------------------------------------- program constants
PointsPerHour == 120
DefaultHalfMovingAvgSize == 0

\* --------------------------------------------------------------- rationals
RECURSIVE Gcd(_, _)
Gcd(a, b) == IF b = 0 THEN a ELSE Gcd(b, a % b)

Abs(n) == IF n < 0 THEN -n ELSE n

Rat(n, d) ==
    LET s == IF d < 0 THEN -1 ELSE 1
        g == Gcd(Abs(n), Abs(d))
    IN  <<(s * n) \div g, (s * d) \div g>>

RInt(n) == <<n, 1>>
RAdd(a, b) == Rat(a[1] * b[2] + b[1] * a[2], a[2] * b[2])
RSub(a, b) == Rat(a[1] * b[2] - b[1] * a[2], a[2] * b[2])
RMul(a, b) == Rat(a[1] * b[1], a[2] * b[2])
RDiv(a, b) == Rat(a[1] * b[2], a[2] * b[1])
RLess(a, b) == a[1] * b[2] < b[1] * a[2]

\* Python int(x): rounds toward zero.
Trunc(a) == IF a[1] >= 0 THEN a[1] \div a[2] ELSE -((-a[1]) \div a[2])

Max(a, b) == IF a >= b THEN a ELSE b

RECURSIVE RSum(_)
RSum(s) == IF s = <<>> THEN RInt(0) ELSE RAdd(s[1], RSum(Tail(s)))

\* ---------------------------------------------------- results of a call
Ok(v) == [raised |-> "", val |-> v]
Raise(e) == [raised |-> e, val |-> <<>>]

\* ------------------------------------------------ prediction_processor.py
\* np.full(n, v)
Full(n, v) == [i \in 1..n |-> v]

\* np.convolve(padded, np.ones(w) / w, mode="valid"): one mean per full window.
ConvolveValid(padded, w) ==
    [i \in 1..(Len(padded) - w + 1) |->
        RDiv(RSum(SubSeq(padded, i, i + w - 1)), RInt(w))]

\* A plausible slip: the early return for half_window_size = 0 is dropped, so
\* every series goes through the padding (which reads values[0]).
apply_moving_average_noearlyreturn(values, half_window_size) ==
    IF Len(values) = 0 THEN Raise("IndexError")
    ELSE IF half_window_size < 0 THEN Raise("ValueError")
    ELSE Ok(ConvolveValid(Full(half_window_size, values[1]) \o values
                          \o Full(half_window_size, values[Len(values)]),
                          2 * half_window_size + 1))

\* A plausible slip: the series is padded with zeros (np.convolve mode="same"
\* behaves so) instead of copies of its first and last value.
apply_moving_average_zeropad(values, half_window_size) ==
    IF half_window_size = 0 THEN Ok(values)
    ELSE IF Len(values) = 0 THEN Raise("IndexError")
    ELSE IF half_window_size < 0 THEN Raise("ValueError")
    ELSE Ok(ConvolveValid(Full(half_window_size, <<0, 1>>) \o values
                          \o Full(half_window_size, <<0, 1>>),
                          2 * half_window_size + 1))

\* PredictionProcessor.apply_moving_average
apply_moving_average(values, half_window_size) ==
    IF half_window_size = 0 THEN Ok(values)
    \* values[0] of an empty array
    ELSE IF Len(values) = 0 THEN Raise("IndexError")
    \* np.full with a negative size
    ELSE IF half_window_size < 0 THEN Raise("ValueError")
    ELSE LET window_size == 2 * half_window_size + 1
             padded_values == Full(half_window_size, values[1]) \o values
                              \o Full(half_window_size, values[Len(values)])
         IN  Ok(ConvolveValid(padded_values, window_size))

\* ------------------------------------------------------ models/prediction.py
\* CameraPosition declares camera_id and position only; a pydantic model
\* ignores any other keyword it is constructed with.
CameraPosition(camera_id, position, enable_masking) ==
    [camera_id |-> camera_id, position |-> position]

\* getattr(obj, name) on a model instance
HasAttr(obj, name) == name \in DOMAIN obj

CameraName(c) == <<c.camera_id, c.position>>

PredictionData(dates, counts, camera_id, position) ==
    [dates |-> dates, counts |-> counts, camera_id |-> camera_id, position |-> position]

\* PredictionData.has_data
has_data(pred) == Len(pred.dates) > 0

\* TimeSeriesPoint(timestamp, value): value is declared ge=0
TimeSeriesPoint(timestamp, value) ==
    IF value < 0 THEN Raise("ValidationError")
    ELSE Ok([timestamp |-> timestamp, value |-> value])

\* The value of lookback_hours: a float n/d, or the default, which the class
\* body sets to a one-element tuple holding the Field (trailing comma).
Float(n, d) == [kind |-> "float", n |-> n, d |-> d]
FieldTuple == [kind |-> "tuple", n |-> 0, d |-> 1]
Absent == [kind |-> "absent", n |-> 0, d |-> 1]

\* AggregateTimeSeriesRequest(**body): pydantic validation and defaults.
\* lookback_hours carries no constraint (the Field with gt=0 is an element of
\* the default tuple, not the field's declaration); half_moving_avg_size has ge=0.
AggregateTimeSeriesRequest(body) ==
    IF body.half_moving_avg_size.kind = "float" /\ body.half_moving_avg_size.n < 0
    THEN Raise("ValidationError")
    ELSE Ok([end_date |-> body.end_date,
             lookback_hours |-> IF body.lookback_hours.kind = "absent"
                                THEN FieldTuple ELSE body.lookback_hours,
             half_moving_avg_size |-> IF body.half_moving_avg_size.kind = "absent"
                                      THEN DefaultHalfMovingAvgSize
                                      ELSE body.half_moving_avg_size.n])

\* ------------------------------------------ repositories/project_repository.py
RECURSIVE CamerasOf(_)
CamerasOf(camera_configs) ==
    IF camera_configs = <<>> THEN <<>>
    ELSE LET cfg == Head(camera_configs)
         IN  (IF cfg.camera_id # "" /\ cfg.position.name # ""
              THEN <<CameraPosition(cfg.camera_id, cfg.position.name, cfg.enable_masking)>>
              ELSE <<>>) \o CamerasOf(Tail(camera_configs))

RECURSIVE AreasDict(_, _)
AreasDict(areas, acc) ==
    IF areas = <<>> THEN acc
    ELSE LET area == Head(areas)
             had == IF area.id \in DOMAIN acc THEN acc[area.id].cameras ELSE <<>>
             new == [area_id |-> area.id, cameras |-> had \o CamerasOf(area.camera_configs)]
         IN  IF area.id = "" THEN AreasDict(Tail(areas), acc)
             ELSE AreasDict(Tail(areas),
                            [a \in (DOMAIN acc) \cup {area.id} |->
                                IF a = area.id THEN new ELSE acc[a]])

\* ProjectRepository.get_camera_mappings: project id -> ProjectMapping
get_camera_mappings(docs) ==
    [p \in {docs[i].id : i \in DOMAIN docs} |->
        LET doc == docs[CHOOSE i \in DOMAIN docs :
                         docs[i].id = p /\ \A j \in DOMAIN docs : docs[j].id = p => j <= i]
        IN  [project_id |-> p, areas |-> AreasDict(doc.areas, <<>>)]]

\* --------------------------------------- repositories/prediction_repository.py
\* The rows the query of one camera position selects: its stored records with
\* start <= timestamp <= end.
QueryItems(store, camera, start_date, end_date) ==
    SelectSeq(store[CameraName(camera)],
              LAMBDA r : start_date <= r.timestamp /\ r.timestamp <= end_date)

\* datetime.strptime(timestamp_str, DATETIME_FORMAT).  A timestamp string in
\* that format is written as its instant, a string in any other form as a
\* negative number.
strptime(timestamp_str) ==
    IF timestamp_str >= 0 THEN Ok(timestamp_str) ELSE Raise("ValueError")

\* One pass of the row loop of _process_camera_query: the <<timestamp, count>>
\* appended to dates and counts, or what made the loop go on to the next row.
ReadRow(prediction, key) ==
    IF "timestamp" \notin DOMAIN prediction THEN Raise("KeyError")
    ELSE IF strptime(prediction.timestamp).raised # "" THEN Raise("ValueError")
    ELSE IF "counts" \notin DOMAIN prediction THEN Raise("KeyError")
    ELSE IF key \notin DOMAIN prediction.counts THEN Raise("continue")
    ELSE Ok(<<strptime(prediction.timestamp).val, prediction.counts[key]>>)

RECURSIVE KeptRows(_, _)
KeptRows(rows, key) ==
    IF rows = <<>> THEN <<>>
    ELSE (IF ReadRow(Head(rows), key).raised = "" THEN <<ReadRow(Head(rows), key).val>>
          ELSE <<>>)
         \o KeptRows(Tail(rows), key)

\* A plausible slip: the timestamp is appended as soon as it is parsed, before
\* the count is looked up.
process_camera_query_dates_first(rows, area_id, camera_id, position, enable_masking) ==
    LET key == IF enable_masking THEN area_id ELSE "total"
        kept == KeptRows(rows, key)
        parsed == SelectSeq(rows, LAMBDA r : /\ "timestamp" \in DOMAIN r
                                             /\ strptime(r.timestamp).raised = "")
    IN  PredictionData([i \in 1..Len(parsed) |-> parsed[i].timestamp],
                       [i \in 1..Len(kept) |-> kept[i][2]],
                       camera_id, position)

\* PredictionRepository._process_camera_query
process_camera_query(rows, area_id, camera_id, position, enable_masking) ==
    LET key == IF enable_masking THEN area_id ELSE "total"
        kept == KeptRows(rows, key)
    IN  PredictionData([i \in 1..Len(kept) |-> kept[i][1]],
                       [i \in 1..Len(kept) |-> kept[i][2]],
                       camera_id, position)

\* PredictionRepository.get_predictions_for_area.  The loop reads
\* camera.enable_masking while building the arguments of _process_camera_query,
\* that is before the query of that camera is executed.
\* A plausible slip: an error of the store is caught around the query and the
\* camera position is handed back without samples.
RECURSIVE FetchFromSwallow(_, _, _, _, _, _, _, _)
FetchFromSwallow(store, faults, area_id, camera_positions, start_date, end_date, i, done) ==
    IF i > Len(camera_positions) THEN [raised |-> "", val |-> done, queries |-> i - 1]
    ELSE LET camera == camera_positions[i]
         IN  IF ~HasAttr(camera, "enable_masking")
             THEN [raised |-> "AttributeError", val |-> <<>>, queries |-> i - 1]
             ELSE FetchFromSwallow(store, faults, area_id, camera_positions, start_date,
                      end_date, i + 1,
                      Append(done,
                          IF faults[CameraName(camera)] # ""
                          THEN PredictionData(<<>>, <<>>, camera.camera_id, camera.position)
                          ELSE process_camera_query(
                                   QueryItems(store, camera, start_date, end_date),
                                   area_id, camera.camera_id, camera.position,
                                   camera.enable_masking)))

\* container.query_items is not inside a try, and the try of the row loop
\* encloses the loop body only: an error of the store while the query of a
\* camera position is executed or read (faults[camera] names it, "" is none)
\* leaves _process_camera_query and get_predictions_for_area.
\* Result: the call result and the number of queries executed.
RECURSIVE FetchFrom(_, _, _, _, _, _, _, _)
FetchFrom(store, faults, area_id, camera_positions, start_date, end_date, i, done) ==
    IF i > Len(camera_positions) THEN [raised |-> "", val |-> done, queries |-> i - 1]
    ELSE LET camera == camera_positions[i]
         IN  IF ~HasAttr(camera, "enable_masking")
             THEN [raised |-> "AttributeError", val |-> <<>>, queries |-> i - 1]
             ELSE IF faults[CameraName(camera)] # ""
             THEN [raised |-> faults[CameraName(camera)], val |-> <<>>, queries |-> i]
             ELSE FetchFrom(store, faults, area_id, camera_positions, start_date, end_date,
                      i + 1,
                      Append(done,
                          process_camera_query(
                              QueryItems(store, camera, start_date, end_date),
                              area_id, camera.camera_id, camera.position,
                              camera.enable_masking)))

get_predictions_for_area(store, faults, project_id, area_id, camera_positions, start_date, end_date) ==
    FetchFrom(store, faults, area_id, camera_positions, start_date, end_date, 1, <<>>)

\* ------------------------------------------------ prediction_processor.py
\* scipy interp1d(xs, ys, kind="linear", fill_value="extrapolate") at x:
\* the segment is found by searchsorted, clipped to 1 .. len(xs)-1, so a point
\* outside the samples continues the first or the last segment.
\* A plausible slip: outside the samples the function keeps the count of the
\* nearest sample (as np.interp does) instead of continuing the segment.
interp1d_clamped(xs, ys, x) ==
    LET xc == IF RLess(x, RInt(xs[1])) THEN RInt(xs[1])
              ELSE IF RLess(RInt(xs[Len(xs)]), x) THEN RInt(xs[Len(xs)]) ELSE x
        below == Cardinality({i \in 1..Len(xs) : RLess(RInt(xs[i]), xc)})
        hi == (IF below < 1 THEN 1 ELSE IF below > Len(xs) - 1 THEN Len(xs) - 1 ELSE below) + 1
        lo == hi - 1
        slope == RDiv(RInt(ys[hi] - ys[lo]), RInt(xs[hi] - xs[lo]))
    IN  RAdd(RMul(slope, RSub(xc, RInt(xs[lo]))), RInt(ys[lo]))

interp1d(xs, ys, x) ==
    LET below == Cardinality({i \in 1..Len(xs) : RLess(RInt(xs[i]), x)})
        hi == (IF below < 1 THEN 1 ELSE IF below > Len(xs) - 1 THEN Len(xs) - 1 ELSE below) + 1
        lo == hi - 1
        slope == RDiv(RInt(ys[hi] - ys[lo]), RInt(xs[hi] - xs[lo]))
    IN  RAdd(RMul(slope, RSub(x, RInt(xs[lo]))), RInt(ys[lo]))

\* One interpolation function of create_interpolation_functions, applied at x
\* (seconds since start_dt): constant for a single sample, linear otherwise.
InterpolationFunc(pred, start_dt, x) ==
    IF Len(pred.dates) = 1 THEN RInt(pred.counts[1])
    ELSE interp1d([i \in 1..Len(pred.dates) |-> pred.dates[i] - start_dt], pred.counts, x)

\* A plausible slip: the earliest and latest date are taken from the first
\* camera only.
DatesOfFirst(predictions) ==
    {predictions[1].dates[j] : j \in 1..Len(predictions[1].dates)}

AllDates(predictions) ==
    UNION {{predictions[i].dates[j] : j \in 1..Len(predictions[i].dates)} :
           i \in 1..Len(predictions)}

SetMin(S) == CHOOSE m \in S : \A o \in S : m <= o
SetMax(S) == CHOOSE m \in S : \A o \in S : m >= o

\* PredictionProcessor.create_interpolation_functions: interp1d refuses fewer
\* than two points, so a prediction without samples raises.
create_interpolation_functions(predictions, start_dt) ==
    IF \E i \in 1..Len(predictions) : Len(predictions[i].dates) = 0
    THEN Raise("ValueError")
    ELSE Ok([preds |-> predictions,
             min_date |-> SetMin(AllDates(predictions)),
             max_date |-> SetMax(AllDates(predictions))])

\* ------------------------------------------------- prediction_service.py
\* np.linspace(lo, hi, num)
linspace(lo, hi, num) ==
    [i \in 1..num |->
        IF num = 1 THEN RInt(lo) ELSE Rat(lo * (num - 1) + (i - 1) * (hi - lo), num - 1)]

\* int(request.lookback_hours * 120)
GridSize(lookback_hours) == Trunc(Rat(lookback_hours.n * PointsPerHour, lookback_hours.d))

\* end_dt - timedelta(hours=lookback_hours); requests use lookbacks that are a
\* whole number of seconds.
StartDt(end_dt, lookback_hours) == end_dt - Trunc(Rat(3600 * lookback_hours.n, lookback_hours.d))

Response(kind, status, detail, missing, time_series, camera_timestamps) ==
    [kind |-> kind, status |-> status, detail |-> detail, missing |-> missing,
     time_series |-> time_series, camera_timestamps |-> camera_timestamps]

Success(time_series, camera_timestamps) ==
    Response("success", 200, "", <<>>, time_series, camera_timestamps)
HttpError(status, detail, missing) == Response("http_error", status, detail, missing, <<>>, <<>>)
Uncaught(exception) == Response("exception", 500, exception, <<>>, <<>>, <<>>)
NoResponse == Response("none", 0, "", <<>>, <<>>, <<>>)

\* PredictionService._create_empty_time_series_response
create_empty_time_series_response == Success(<<>>, <<>>)

\* PredictionService._get_area: the AreaMapping, or None (here <<>>)
get_area(camera_mappings, project_id, area_id) ==
    IF project_id \notin DOMAIN camera_mappings THEN <<>>
    ELSE IF area_id \notin DOMAIN camera_mappings[project_id].areas THEN <<>>
    ELSE <<camera_mappings[project_id].areas[area_id]>>

\* A plausible slip: one message for both lookups.
not_found_detail_same(camera_mappings, project_id) == "Project not found"

\* Step 1, the detail of the 404
not_found_detail(camera_mappings, project_id) ==
    IF project_id \notin DOMAIN camera_mappings
    THEN "Project not found" ELSE "Area not found in project"

cameras_with_data(predictions) == SelectSeq(predictions, has_data)
cameras_without_data(predictions) == SelectSeq(predictions, LAMBDA pred : ~has_data(pred))

\* A plausible slip: one CameraTimestamp per camera, of its first sample.
CameraTimestampsPerCamera(preds) ==
    [i \in 1..Len(preds) |->
        [camera_id |-> preds[i].camera_id, position |-> preds[i].position,
         timestamp |-> preds[i].dates[1]]]

\* Step 5: one CameraTimestamp per fetched sample
RECURSIVE CameraTimestamps(_)
CameraTimestamps(preds) ==
    IF preds = <<>> THEN <<>>
    ELSE [j \in 1..Len(Head(preds).dates) |->
            [camera_id |-> Head(preds).camera_id, position |-> Head(preds).position,
             timestamp |-> Head(preds).dates[j]]]
         \o CameraTimestamps(Tail(preds))

\* A plausible slip: each camera's value is raised to zero before the sum.
SumValuesClamped(preds, start_dt, time_grid) ==
    [g \in 1..Len(time_grid) |->
        RSum([c \in 1..Len(preds) |->
                LET v == InterpolationFunc(preds[c], start_dt, time_grid[g])
                IN  IF RLess(v, RInt(0)) THEN RInt(0) ELSE v])]

\* Step 8: np.sum([func(time_grid) for func in funcs], axis=0)
SumValues(preds, start_dt, time_grid) ==
    [g \in 1..Len(time_grid) |->
        RSum([c \in 1..Len(preds) |-> InterpolationFunc(preds[c], start_dt, time_grid[g])])]

\* A plausible slip: the value is truncated but not raised to zero.
ClampNoMax(v) == Trunc(v)

\* Step 10: max(0, int(v))
Clamp(v) == Max(0, Trunc(v))

\* A plausible slip: the grid spans the requested window.
TimeGridOfWindow(interpolation_result, start_dt, request) ==
    linspace(0, request.end_date - start_dt, GridSize(request.lookback_hours))

\* Step 7: the uniform grid between the earliest and the latest sample, in
\* seconds since start_dt
TimeGrid(interpolation_result, start_dt, request) ==
    linspace(interpolation_result.min_date - start_dt,
             interpolation_result.max_date - start_dt,
             GridSize(request.lookback_hours))

\* Steps 8 and 9: the sums on the grid, then the moving average
SmoothedValues(predictions, time_grid, start_dt, request) ==
    apply_moving_average(SumValues(predictions, start_dt, time_grid),
                         request.half_moving_avg_size)

\* Steps 5 to 10 of aggregate_time_series, for the predictions handed to
\* create_interpolation_functions.
Pipeline(predictions, with_data, start_dt, request) ==
    LET interpolation_result == create_interpolation_functions(predictions, start_dt)
    IN  IF interpolation_result.raised # "" THEN Uncaught(interpolation_result.raised)
        \* np.linspace refuses a negative num
        ELSE IF GridSize(request.lookback_hours) < 0 THEN Uncaught("ValueError")
        ELSE LET time_grid == TimeGrid(interpolation_result.val, start_dt, request)
                 smoothed_values == SmoothedValues(predictions, time_grid, start_dt, request)
                 points == [i \in 1..Len(time_grid) |->
                               TimeSeriesPoint(RAdd(RInt(start_dt), time_grid[i]),
                                               Clamp(smoothed_values.val[i]))]
             IN  IF smoothed_values.raised # "" THEN Uncaught(smoothed_values.raised)
                 ELSE IF \E i \in 1..Len(points) : points[i].raised # ""
                 THEN Uncaught("ValidationError")
                 ELSE Success([i \in 1..Len(points) |-> points[i].val],
                              CameraTimestamps(with_data))

\* A plausible slip: the partial-data refusal is left out and the cameras that
\* have data are aggregated.
ClassifySubset(predictions, start_dt, request) ==
    IF Len(cameras_with_data(predictions)) = 0 THEN create_empty_time_series_response
    ELSE Pipeline(cameras_with_data(predictions), cameras_with_data(predictions),
                  start_dt, request)

\* Steps 4 to 10 of aggregate_time_series: what is answered for the
\* predictions the repository returned.
Classify(predictions, start_dt, request) ==
    IF Len(cameras_with_data(predictions)) = 0 THEN create_empty_time_series_response
    ELSE IF Len(cameras_without_data(predictions)) > 0
    THEN HttpError(422, "Partial prediction data found",
                   [i \in 1..Len(cameras_without_data(predictions)) |->
                        CameraName(cameras_without_data(predictions)[i])])
    ELSE Pipeline(predictions, cameras_with_data(predictions), start_dt, request)

\* PredictionService.aggregate_time_series.
\* Result: the response, the predictions the repository returned, whether
\* get_predictions_for_area was called, and the number of queries the
\* prediction store executed.
aggregate_time_series(camera_mappings, store, faults, project_id, area_id, request) ==
    LET area == get_area(camera_mappings, project_id, area_id)
    IN  IF area = <<>>
        THEN [response |-> HttpError(404, not_found_detail(camera_mappings, project_id), <<>>),
              predictions |-> <<>>, fetch_calls |-> 0, queries |-> 0]
        ELSE IF request.lookback_hours.kind = "tuple"
        \* timedelta(hours=<tuple>)
        THEN [response |-> Uncaught("TypeError"),
              predictions |-> <<>>, fetch_calls |-> 0, queries |-> 0]
        ELSE LET end_dt == request.end_date
                 start_dt == StartDt(end_dt, request.lookback_hours)
                 predictions == get_predictions_for_area(
                                    store, faults, project_id, area_id, area[1].cameras,
                                    start_dt, end_dt)
             IN  IF predictions.raised # ""
                 THEN [response |-> Uncaught(predictions.raised), predictions |-> <<>>,
                       fetch_calls |-> 1, queries |-> predictions.queries]
                 ELSE [response |-> Classify(predictions.val, start_dt, request),
                       predictions |-> predictions.val,
                       fetch_calls |-> 1, queries |-> predictions.queries]

\* ------------------------------------------------------------- the stores
\* The project documents of the project store: project p1 with an area
\* without camera configurations, an area of one camera and an area of two.
CameraConfigDoc(camera_id, position, enable_masking) ==
    [camera_id |-> camera_id, position |-> [name |-> position],
     enable_masking |-> enable_masking]

ProjectDocs ==
    << [id |-> "p1",
        areas |-> << [id |-> "a0", camera_configs |-> <<>>],
                     [id |-> "a1", camera_configs |-> <<CameraConfigDoc("c1", "left", FALSE)>>],
                     [id |-> "a2", camera_configs |-> <<CameraConfigDoc("c1", "left", FALSE),
                                                        CameraConfigDoc("c2", "left", TRUE)>>] >>] >>

ProjectIds == {"p1", "px"}
AreaIds == {"a0", "a1", "a2", "ax"}
CameraNames == {<<"c1", "left">>, <<"c2", "left">>}
Counts == {0, 10}
Instants == {15 * i : i \in 1..MaxTick}
EndDate == 15 * MaxTick

\* The strictly increasing sequence of the instants of T
SortedSeq(T) ==
    CHOOSE q \in [1..Cardinality(T) -> T] : \A i \in 1..(Cardinality(T) - 1) : q[i] < q[i + 1]

\* The counts of a stored record: of the whole image, and of each area that
\* is masked in it.
FullCounts == [total |-> 10, a1 |-> 4, a2 |-> 6]

\* A stored record of a camera whose image had no masked area
TotalOnly == [total |-> 10]

\* The errors a query of the prediction store can end with
StoreErrors == {"CosmosHttpResponseError", "CosmosClientTimeoutError"}

\* No query of the prediction store fails.
NoFaults == [c \in CameraNames |-> ""]

\* Stored records of one camera position: at most n, at distinct instants.
StoredRecords(n) ==
    {[i \in 1..Cardinality(T) |->
        [timestamp |-> SortedSeq(T)[i], counts |-> FullCounts]] :
     T \in {U \in SUBSET Instants : Cardinality(U) <= n}}

\* What one camera position can hand back for the window [start, end]: at most
\* n samples at distinct instants of the window, in ascending order.
FetchedSamples(n, start, end) ==
    UNION {{[dates |-> SortedSeq(T), counts |-> c] : c \in [1..Cardinality(T) -> Counts]} :
           T \in {U \in SUBSET {t \in Instants : start <= t /\ t <= end} : Cardinality(U) <= n}}

\* Stored records of one camera position, with or without counts per area
FetchRecords(n) ==
    UNION {{[i \in 1..Cardinality(T) |-> [timestamp |-> SortedSeq(T)[i], counts |-> c[i]]] :
              c \in [1..Cardinality(T) -> {FullCounts, TotalOnly}]} :
           T \in {U \in SUBSET Instants : Cardinality(U) <= n}}

\* An object with the attributes get_predictions_for_area reads of a camera
\* position: camera_id, position and enable_masking.
CameraWithMasking(camera_id, position, enable_masking) ==
    [camera_id |-> camera_id, position |-> position, enable_masking |-> enable_masking]

\* The camera mappings of the project documents, every camera position
\* carrying the enable_masking value of its configuration.
MaskedMappings ==
    [p \in {ProjectDocs[d].id : d \in DOMAIN ProjectDocs} |->
        LET doc == ProjectDocs[CHOOSE d \in DOMAIN ProjectDocs : ProjectDocs[d].id = p]
        IN  [project_id |-> p,
             areas |->
               [a \in {doc.areas[k].id : k \in DOMAIN doc.areas} |->
                  LET cfgs == doc.areas[CHOOSE k \in DOMAIN doc.areas :
                                          doc.areas[k].id = a].camera_configs
                  IN  [area_id |-> a,
                       cameras |-> [i \in 1..Len(cfgs) |->
                                      CameraWithMasking(cfgs[i].camera_id, cfgs[i].position.name,
                                                        cfgs[i].enable_masking)]]]]]

LookbackValues == {Float(k, 240) : k \in (-1)..MaxLookbackTicks}
HalfValues == {Float(h, 1) : h \in (-1)..MaxHalf}

Bodies ==
    [end_date : {EndDate},
     lookback_hours : LookbackValues \cup {Absent},
     half_moving_avg_size : HalfValues \cup {Absent}]

NoBody == [end_date |-> 0, lookback_hours |-> Absent, half_moving_avg_size |-> Absent]
NoRequest == [end_date |-> 0, lookback_hours |-> FieldTuple, half_moving_avg_size |-> 0]
NoAccess == [project_reads |-> 0, fetch_calls |-> 0, queries |-> 0]

\* ------------------------------------------------------- models/project.py
\* CountingModel
STANDARD == "model_nwpu.pth"
LIGHTSHOW == "model_0725.pth"
None == "None"

\* Times of day are the whole numbers 0 .. MaxTimeOfDay, in the order of
\* datetime.time.
TimesOfDay == 0..MaxTimeOfDay

\* ModelSchedule, without its id and name
ModelSchedule(start, end, model) ==
    [start |-> start, end |-> end, model |-> model]

\* ModelSchedule.is_active(check_time)
is_active(schedule, check_time) ==
    IF schedule.start <= schedule.end
    THEN schedule.start <= check_time /\ check_time <= schedule.end
    ELSE schedule.start <= check_time \/ check_time <= schedule.end

\* The overlap test of validate_no_schedule_overlap for schedule1 listed
\* before schedule2
overlap(schedule1, schedule2) ==
    LET start1 == schedule1.start
        end1 == schedule1.end
        start2 == schedule2.start
        end2 == schedule2.end
    IN  IF start1 <= end1 /\ start2 <= end2
        THEN start1 <= end2 /\ start2 <= end1
        ELSE IF start1 > end1 /\ start2 <= end2
        THEN start2 >= start1 \/ end2 <= end1
        ELSE IF start1 <= end1 /\ start2 > end2
        THEN start1 >= start2 \/ end1 <= end2
        ELSE TRUE

\* Camera.validate_no_schedule_overlap
validate_no_schedule_overlap(model_schedules) ==
    IF \E i, j \in 1..Len(model_schedules) :
          i < j /\ overlap(model_schedules[i], model_schedules[j])
    THEN Raise("ValueError")
    ELSE Ok(model_schedules)

\* Camera.get_active_model(current_time)
get_active_model(model_schedules, default_model, check_time) ==
    LET active == {i \in 1..Len(model_schedules) : is_active(model_schedules[i], check_time)}
    IN  IF active # {}
        THEN model_schedules[CHOOSE i \in active : \A j \in active : i <= j].model
        ELSE IF default_model # None THEN default_model ELSE STANDARD

\* The lists of at most n model schedules
ScheduleLists(n) ==
    UNION {[1..k -> {ModelSchedule(start, end, model) :
                       start \in TimesOfDay, end \in TimesOfDay,
                       model \in {STANDARD, LIGHTSHOW}}] : k \in 0..n}

\* ------------------------------------------- services/project_service.py
\* A project as ProjectService loads it: its cameras by id, its areas with
\* their camera configurations.  exists is FALSE for get_project's None.
Project(cameras, areas) ==
    [exists |-> TRUE, cameras |-> cameras, areas |-> areas]

NoProject == [exists |-> FALSE, cameras |-> <<>>, areas |-> <<>>]

Area(id) == [id |-> id, camera_configs |-> <<>>]

\* CameraConfig, with the fields the services read
CameraConfig(id, camera_id, position_name) ==
    [id |-> id, camera_id |-> camera_id, position |-> [name |-> position_name],
     enable_masking |-> FALSE]

\* The index of the first element of seq with the given id, 0 when there is none
IndexOfId(seq, id) ==
    IF \E i \in 1..Len(seq) : seq[i].id = id
    THEN CHOOSE i \in 1..Len(seq) : seq[i].id = id /\ \A j \in 1..(i - 1) : seq[j].id # id
    ELSE 0

RECURSIVE Without(_, _)
\* [x for x in seq if not Drop(x)], Drop given as the set of elements to drop
Without(seq, dropped) ==
    IF seq = <<>> THEN <<>>
    ELSE (IF Head(seq) \in dropped THEN <<>> ELSE <<Head(seq)>>) \o Without(Tail(seq), dropped)

add_camera(project, camera_id) ==
    IF ~project.exists THEN Raise("ValueError")
    ELSE IF \E i \in 1..Len(project.cameras) : project.cameras[i] = camera_id
    THEN Raise("ValueError")
    ELSE Ok([project EXCEPT !.cameras = Append(@, camera_id)])

\* The fields of a camera other than its id are not part of the project here
update_camera(project, camera_id) ==
    IF ~project.exists THEN Raise("ValueError")
    ELSE IF ~\E i \in 1..Len(project.cameras) : project.cameras[i] = camera_id
    THEN Raise("ValueError")
    ELSE Ok(project)

delete_camera(project, camera_id) ==
    IF ~project.exists THEN Raise("ValueError")
    ELSE IF ~\E i \in 1..Len(project.cameras) : project.cameras[i] = camera_id
    THEN Raise("ValueError")
    ELSE Ok([project EXCEPT
               !.cameras = Without(@, {camera_id}),
               !.areas = [a \in 1..Len(@) |->
                            [@[a] EXCEPT !.camera_configs =
                               Without(@, {cc \in {@[k] : k \in 1..Len(@)} :
                                             cc.camera_id = camera_id})]]])

add_area(project, area_data) ==
    IF ~project.exists THEN Raise("ValueError")
    ELSE IF IndexOfId(project.areas, area_data.id) # 0 THEN Raise("ValueError")
    ELSE Ok([project EXCEPT !.areas = Append(@, area_data)])

\* area_data of update_area carries the name of the area only
update_area(project, area_id) ==
    IF ~project.exists THEN Raise("ValueError")
    ELSE IF IndexOfId(project.areas, area_id) = 0 THEN Raise("ValueError")
    ELSE Ok(project)

delete_area(project, area_id) ==
    IF ~project.exists THEN Raise("ValueError")
    ELSE IF IndexOfId(project.areas, area_id) = 0 THEN Raise("ValueError")
    ELSE Ok([project EXCEPT
               !.areas = Without(@, {a \in {@[k] : k \in 1..Len(@)} : a.id = area_id})])

add_camera_config(project, area_id, config_data) ==
    LET area_index == IndexOfId(project.areas, area_id)
        configs == project.areas[area_index].camera_configs
    IN  IF ~project.exists THEN Raise("ValueError")
        ELSE IF area_index = 0 THEN Raise("ValueError")
        ELSE IF IndexOfId(configs, config_data.id) # 0 THEN Raise("ValueError")
        ELSE IF config_data.camera_id = "" THEN Raise("ValueError")
        ELSE IF ~\E i \in 1..Len(project.cameras) : project.cameras[i] = config_data.camera_id
        THEN Raise("ValueError")
        ELSE IF \E i \in 1..Len(configs) :
                  /\ configs[i].camera_id = config_data.camera_id
                  /\ configs[i].position.name = config_data.position.name
        THEN Raise("ValueError")
        ELSE Ok([project EXCEPT !.areas[area_index].camera_configs = Append(@, config_data)])

\* config_data has the fields of CameraConfigUpdate: every field of a camera
\* configuration but its id
update_camera_config(project, area_id, camera_config_id, config_data) ==
    LET area_index == IndexOfId(project.areas, area_id)
        configs == project.areas[area_index].camera_configs
        config_index == IndexOfId(configs, camera_config_id)
    IN  IF ~project.exists THEN Raise("ValueError")
        ELSE IF area_index = 0 THEN Raise("ValueError")
        ELSE IF config_index = 0 THEN Raise("ValueError")
        ELSE Ok([project EXCEPT !.areas[area_index].camera_configs[config_index] =
                   [config_data EXCEPT !.id = camera_config_id]])

delete_camera_config(project, area_id, camera_config_id) ==
    LET area_index == IndexOfId(project.areas, area_id)
        configs == project.areas[area_index].camera_configs
    IN  IF ~project.exists THEN Raise("ValueError")
        ELSE IF area_index = 0 THEN Raise("ValueError")
        ELSE IF IndexOfId(configs, camera_config_id) = 0 THEN Raise("ValueError")
        ELSE Ok([project EXCEPT !.areas[area_index].camera_configs =
                   Without(@, {cc \in {@[k] : k \in 1..Len(@)} : cc.id = camera_config_id})])

\* The callers of ProjectService
Callers == {"m1", "m2"}

\* The calls of ProjectService on the one project of the store
ProjCameraIds == {"c1", "c2"}
ProjAreaIds == {"a1"}
PositionNames == {"left", "right"}
ConfigIds == 1..MaxConfigs

Operation(op, camera_id, area_id, config_id, position_name) ==
    [op |-> op, camera_id |-> camera_id, area_id |-> area_id, config_id |-> config_id,
     position_name |-> position_name]

NoOperation == Operation("", "", "", 0, "")

Mutations ==
    {Operation(op, c, "", 0, "") :
        op \in {"add_camera", "update_camera", "delete_camera"}, c \in ProjCameraIds}
    \cup {Operation(op, "", a, 0, "") :
            op \in {"add_area", "update_area", "delete_area"}, a \in ProjAreaIds}
    \cup {Operation(op, c, a, k, n) :
            op \in {"add_camera_config", "update_camera_config"},
            c \in ProjCameraIds, a \in ProjAreaIds, k \in ConfigIds, n \in PositionNames}
    \cup {Operation("delete_camera_config", "", a, k, "") : a \in ProjAreaIds, k \in ConfigIds}

\* What the method of operation o makes of the project it loaded
Mutated(project, o) ==
    CASE o.op = "add_camera" -> add_camera(project, o.camera_id)
      [] o.op = "update_camera" -> update_camera(project, o.camera_id)
      [] o.op = "delete_camera" -> delete_camera(project, o.camera_id)
      [] o.op = "add_area" -> add_area(project, Area(o.area_id))
      [] o.op = "update_area" -> update_area(project, o.area_id)
      [] o.op = "delete_area" -> delete_area(project, o.area_id)
      [] o.op = "add_camera_config" ->
           add_camera_config(project, o.area_id,
                             CameraConfig(o.config_id, o.camera_id, o.position_name))
      [] o.op = "update_camera_config" ->
           update_camera_config(project, o.area_id, o.config_id,
                                CameraConfig(0, o.camera_id, o.position_name))
      [] o.op = "delete_camera_config" ->
           delete_camera_config(project, o.area_id, o.config_id)

\* A call of a ProjectService method: the operation, where it stands, the
\* project it holds, what update_project or delete_project found, the cache
\* clears it requested and what the caller got.
Call(operation, at, project, found, clears, cleared, result) ==
    [operation |-> operation, at |-> at, project |-> project, found |-> found,
     clears |-> clears, cleared |-> cleared, result |-> result]

NoCall == Call(NoOperation, "idle", NoProject, "", 0, "", "")

\* What PredictionBackendClient.clear_cache can come to: True, False, or the
\* TypeError of its clause "except aiohttp.ClientTimeout", which names a class
\* that is no exception and is evaluated when the request raises.
ClearCacheOutcomes == {"True", "False", "TypeError"}

\* --------------------------------------- services/count_addition_service.py
\* app_resources["area_cps"]: area -> its (camera, position) pairs
area_cps ==
    [a1 |-> << <<"c1", "left">> >>,
     a2 |-> << <<"c1", "left">>, <<"c2", "left">> >>]

\* The rows of the query of _retrieve_all_predictions for one pair
legacy_query_items(store, cp, start_date, end_date) ==
    SelectSeq(store[cp], LAMBDA r : start_date <= r.timestamp /\ r.timestamp <= end_date)

\* retrieve_dates_and_counts: the timestamps of the rows and their counts of
\* the area
retrieve_dates_and_counts(rows, area) ==
    << [i \in 1..Len(rows) |-> rows[i].timestamp],
       [i \in 1..Len(rows) |-> rows[i].counts[area]] >>

\* A fetch that has not completed, and one that has, with what it returned
PendingFetch == [done |-> FALSE, val |-> << <<>>, <<>> >>]
CompletedFetch(val) == [done |-> TRUE, val |-> val]

\* A plausible slip: the results are taken in the order the fetches completed
\* in (as with asyncio.as_completed).
gather_as_completed(awaited, order) ==
    [i \in 1..Len(awaited) |-> awaited[order[i]].val]

\* asyncio.gather(*aws), every awaitable completed: the results in the order
\* of the awaitables.  order is the order they completed in.
gather(awaited, order) ==
    [i \in 1..Len(awaited) |-> awaited[i].val]

\* list(zip(xs, ys))
zip(xs, ys) ==
    [i \in 1..(IF Len(xs) < Len(ys) THEN Len(xs) ELSE Len(ys)) |-> <<xs[i], ys[i]>>]

\* What CountAdditionService.__call__ comes to: an AddCountsOutput, an
\* HTTPException or another exception
AddCountsOutput(predictions_sum) ==
    [kind |-> "success", status |-> 200, detail |-> "", predictions_sum |-> predictions_sum]
LegacyError(kind, status, detail) ==
    [kind |-> kind, status |-> status, detail |-> detail, predictions_sum |-> <<>>]
NoOutput == LegacyError("none", 0, "")

PredictionSum(timestamp, prediction) == [timestamp |-> timestamp, prediction |-> prediction]

\* CountAdditionService._construct_interpolation_funcs.  interp1d refuses
\* fewer than two points, inside the loop; the pairs without predictions are
\* refused after it; min() of no date raises.
construct_interpolation_funcs(preds) ==
    IF \E i \in 1..Len(preds) : Len(preds[i][1][1]) = 1
    THEN LegacyError("exception", 500, "ValueError")
    ELSE IF \E i \in 1..Len(preds) : Len(preds[i][1][1]) = 0
    THEN LegacyError("http_error", 422, "No predictions found for cameras and positions")
    ELSE IF preds = <<>> THEN LegacyError("exception", 500, "ValueError")
    ELSE [kind |-> "", status |-> 0, detail |-> "", predictions_sum |-> <<>>,
          min_date |-> SetMin({preds[i][1][1][1] : i \in 1..Len(preds)}),
          max_date |-> SetMax({preds[i][1][1][Len(preds[i][1][1])] : i \in 1..Len(preds)})]

\* CountAdditionService._calculate_moving_avarage
calculate_moving_avarage(half_moving_avg_size, sum) ==
    IF half_moving_avg_size = 0 THEN Ok(sum)
    \* sum[0] of an empty array
    ELSE IF Len(sum) = 0 THEN Raise("IndexError")
    ELSE LET window_size == 2 * half_moving_avg_size + 1
         IN  Ok(ConvolveValid(Full(half_moving_avg_size, sum[1]) \o sum
                                \o Full(half_moving_avg_size, sum[Len(sum)]),
                              window_size))

\* CountAdditionService.__call__, from the predictions retrieved for the
\* pairs of the area
legacy_call(preds, start_dt, input) ==
    LET funcs == construct_interpolation_funcs(preds)
    IN  IF funcs.kind # "" THEN funcs
        ELSE LET rescaled_dates_grid ==
                     linspace(funcs.min_date - start_dt, funcs.max_date - start_dt,
                              GridSize(input.lookback_hours))
                 sum == [g \in 1..Len(rescaled_dates_grid) |->
                           RSum([c \in 1..Len(preds) |->
                                   interp1d([j \in 1..Len(preds[c][1][1]) |->
                                                preds[c][1][1][j] - start_dt],
                                            preds[c][1][2], rescaled_dates_grid[g])])]
                 sum_mv == calculate_moving_avarage(input.half_moving_avg_size, sum)
             IN  IF sum_mv.raised # "" THEN LegacyError("exception", 500, sum_mv.raised)
                 ELSE AddCountsOutput(
                        [g \in 1..Len(rescaled_dates_grid) |->
                           PredictionSum(RAdd(RInt(start_dt), rescaled_dates_grid[g]),
                                         Max(0, Trunc(sum_mv.val[g])))])

\* ------------------------------------------------------------------- state
VARIABLES
    samples,          \* the prediction store: camera position -> stored records
    pc,               \* where the request stands
    body,             \* the body of the request
    request,          \* the AggregateTimeSeriesRequest built from it
    camera_mappings,  \* PredictionService.camera_mappings
    target,           \* <<project_id, area_id>> of the call
    predictions,      \* what get_predictions_for_area returned
    outcome,          \* the response, or the exception that ended the request
    access,           \* the store accesses made for the request
    series,           \* apply_moving_average: values
    half_window,      \* apply_moving_average: half_window_size
    smoothed,         \* apply_moving_average: its result
    faults,           \* the prediction store: camera position -> error of its query, or ""
    query_time,       \* one interpolation function: the time it is evaluated at
    contribution,     \* one interpolation function: its value there
    inflight,         \* the requests served at the same time: name -> its locals
    schedules,        \* Camera.model_schedules
    current_time,     \* get_active_model: the time of day asked about
    active_model,     \* get_active_model: its result
    stored_project,   \* the project store: the document of the one project
    calls,            \* the calls of ProjectService methods: caller -> Call
    query_results,    \* _process_camera_query: the rows its query returned
    masking,          \* _process_camera_query: enable_masking
    fetches,          \* _retrieve_all_predictions: the fetches and the order they completed in
    all_preds,        \* _retrieve_all_predictions: what it returned
    legacy_outcome    \* CountAdditionService.__call__: what it came to

vars == <<samples, pc, body, request, camera_mappings, target, predictions, outcome,
          access, series, half_window, smoothed, faults, query_time, contribution, inflight,
          schedules, current_time, active_model, stored_project, calls,
          query_results, masking, fetches, all_preds, legacy_outcome>>

smooth_vars == <<series, half_window, smoothed>>
interp_vars == <<query_time, contribution>>
schedule_vars == <<schedules, current_time, active_model>>

\* The variables of the project models and services, which the prediction
\* requests leave alone
project_vars == <<stored_project, calls>>
rows_vars == <<query_results, masking>>
gather_vars == <<fetches, all_preds, legacy_outcome>>
ext_vars == <<schedule_vars, project_vars, rows_vars, gather_vars>>

ScheduleIdle ==
    /\ schedules = <<>>
    /\ current_time = 0
    /\ active_model = ""

ProjectIdle ==
    /\ stored_project = NoProject
    /\ calls = <<>>

RowsIdle ==
    /\ query_results = <<>>
    /\ masking = FALSE

GatherIdle ==
    /\ fetches = [awaited |-> <<>>, order |-> <<>>]
    /\ all_preds = <<>>
    /\ legacy_outcome = NoOutput

ExtIdle == ScheduleIdle /\ ProjectIdle /\ RowsIdle /\ GatherIdle

\* No prediction request is under way
BaseIdle ==
    /\ samples = [c \in CameraNames |-> <<>>]
    /\ body = NoBody
    /\ request = NoRequest
    /\ camera_mappings = <<>>
    /\ target = <<"", "">>
    /\ predictions = <<>>
    /\ outcome = NoResponse
    /\ access = NoAccess
    /\ series = <<>>
    /\ half_window = 0
    /\ smoothed = Ok(<<>>)
    /\ faults = NoFaults
    /\ query_time = RInt(0)
    /\ contribution = RInt(0)
    /\ inflight = <<>>

base_vars == <<samples, body, request, camera_mappings, target, predictions, outcome,
               access, smooth_vars, faults, interp_vars, inflight>>

\* ----------------------------------------------- the request, step by step
Init ==
    /\ ExtIdle
    /\ samples \in [CameraNames -> StoredRecords(MaxStoreSamples)]
    /\ pc = "idle"
    /\ body = NoBody
    /\ request = NoRequest
    /\ camera_mappings = <<>>
    /\ target = <<"", "">>
    /\ predictions = <<>>
    /\ outcome = NoResponse
    /\ access = NoAccess
    /\ series = <<>>
    /\ half_window = 0
    /\ smoothed = Ok(<<>>)
    /\ faults = NoFaults
    /\ query_time = RInt(0)
    /\ contribution = RInt(0)
    /\ inflight = <<>>

\* The body is validated into an AggregateTimeSeriesRequest.
NewRequest ==
    /\ pc = "idle"
    /\ \E b \in Bodies :
        /\ body' = b
        /\ IF AggregateTimeSeriesRequest(b).raised # ""
           THEN /\ pc' = "rejected"
                /\ request' = NoRequest
                /\ outcome' = Response("validation_error", 422,
                                       AggregateTimeSeriesRequest(b).raised, <<>>, <<>>, <<>>)
           ELSE /\ pc' = "parsed"
                /\ request' = AggregateTimeSeriesRequest(b).val
                /\ outcome' = NoResponse
    /\ access' = NoAccess
    /\ UNCHANGED <<ext_vars, samples, camera_mappings, target, predictions, smooth_vars, faults,
                   interp_vars, inflight>>

\* get_prediction_service: the camera mappings are read from the project store.
GetPredictionService ==
    /\ pc = "parsed"
    /\ camera_mappings' = get_camera_mappings(ProjectDocs)
    /\ access' = [access EXCEPT !.project_reads = @ + 1]
    /\ pc' = "ready"
    /\ UNCHANGED <<ext_vars, samples, body, request, target, predictions, outcome, smooth_vars, faults,
                   interp_vars, inflight>>

\* PredictionService.aggregate_time_series(project_id, area_id, request)
AggregateTimeSeries ==
    /\ pc = "ready"
    /\ \E project_id \in ProjectIds, area_id \in AreaIds :
        LET r == aggregate_time_series(camera_mappings, samples, faults, project_id, area_id,
                                       request)
        IN  /\ target' = <<project_id, area_id>>
            /\ predictions' = r.predictions
            /\ outcome' = r.response
            /\ access' = [access EXCEPT !.fetch_calls = @ + r.fetch_calls,
                                        !.queries = @ + r.queries]
    /\ pc' = "done"
    /\ UNCHANGED <<ext_vars, samples, body, request, camera_mappings, smooth_vars, faults, interp_vars,
                   inflight>>

\* The response is sent; the next request starts from the same stores.
Respond ==
    /\ pc \in {"done", "rejected"}
    /\ pc' = "idle"
    /\ body' = NoBody
    /\ request' = NoRequest
    /\ camera_mappings' = <<>>
    /\ target' = <<"", "">>
    /\ predictions' = <<>>
    /\ outcome' = NoResponse
    /\ access' = NoAccess
    /\ UNCHANGED <<ext_vars, samples, smooth_vars, faults, interp_vars, inflight>>

Next == NewRequest \/ GetPredictionService \/ AggregateTimeSeries \/ Respond

Spec == Init /\ [][Next]_vars

\* --------------------------- steps 4 to 10 on what the repository returned
\* A request that passed validation and whose window could be computed, for
\* area a1 or a2 of p1, and one PredictionData per camera of the area with
\* samples of the window.
AggInit ==
    /\ ExtIdle
    /\ samples = [c \in CameraNames |-> <<>>]
    /\ pc = "fetched"
    /\ body = NoBody
    /\ camera_mappings = get_camera_mappings(ProjectDocs)
    /\ target \in {<<"p1", "a1">>, <<"p1", "a2">>}
    /\ request \in [end_date : {EndDate}, lookback_hours : LookbackValues,
                    half_moving_avg_size : 0..MaxHalf]
    /\ LET cameras == camera_mappings[target[1]].areas[target[2]].cameras
           start_dt == StartDt(request.end_date, request.lookback_hours)
       IN  predictions \in
             {[i \in 1..Len(cameras) |->
                 PredictionData(f[i].dates, f[i].counts, cameras[i].camera_id, cameras[i].position)] :
              f \in [1..Len(cameras) -> FetchedSamples(MaxSamples, start_dt, request.end_date)]}
    /\ outcome = NoResponse
    /\ access = NoAccess
    /\ series = <<>>
    /\ half_window = 0
    /\ smoothed = Ok(<<>>)
    /\ faults = NoFaults
    /\ query_time = RInt(0)
    /\ contribution = RInt(0)
    /\ inflight = <<>>

Answer ==
    /\ pc = "fetched"
    /\ outcome' = Classify(predictions, StartDt(request.end_date, request.lookback_hours), request)
    /\ pc' = "answered"
    /\ UNCHANGED <<ext_vars, samples, body, request, camera_mappings, target, predictions, access,
                   smooth_vars, faults, interp_vars, inflight>>

AggNext == Answer

SpecAgg == AggInit /\ [][AggNext]_vars

\* ------------------------------ steps 8-10 for the two cameras of area a2
\* The fetch has returned for area a2 and the window holds every instant, so
\* that a camera's first sample can lie after the first grid point.
SumInit ==
    /\ ExtIdle
    /\ samples = [c \in CameraNames |-> <<>>]
    /\ pc = "fetched"
    /\ body = NoBody
    /\ camera_mappings = get_camera_mappings(ProjectDocs)
    /\ target = <<"p1", "a2">>
    /\ request \in [end_date : {EndDate}, lookback_hours : {Float(MaxLookbackTicks, 240)},
                    half_moving_avg_size : 0..MaxHalf]
    /\ LET cameras == camera_mappings[target[1]].areas[target[2]].cameras
           start_dt == StartDt(request.end_date, request.lookback_hours)
       IN  predictions \in
             {[i \in 1..Len(cameras) |->
                 PredictionData(f[i].dates, f[i].counts, cameras[i].camera_id, cameras[i].position)] :
              f \in [1..Len(cameras) -> FetchedSamples(MaxSamples, start_dt, request.end_date)]}
    /\ outcome = NoResponse
    /\ access = NoAccess
    /\ series = <<>>
    /\ half_window = 0
    /\ smoothed = Ok(<<>>)
    /\ faults = NoFaults
    /\ query_time = RInt(0)
    /\ contribution = RInt(0)
    /\ inflight = <<>>

SpecSum == SumInit /\ [][AggNext]_vars

\* ------------------------------------------- apply_moving_average on its own
SeriesValues == {RInt(v) : v \in {-10, 0, 10}}

SmoothInit ==
    /\ ExtIdle
    /\ samples = [c \in CameraNames |-> <<>>]
    /\ pc = "smooth_in"
    /\ body = NoBody
    /\ request = NoRequest
    /\ camera_mappings = <<>>
    /\ target = <<"", "">>
    /\ predictions = <<>>
    /\ outcome = NoResponse
    /\ access = NoAccess
    /\ series \in UNION {[1..n -> SeriesValues] : n \in 0..MaxSeriesLen}
    /\ half_window \in 0..MaxHalf
    /\ smoothed = Ok(<<>>)
    /\ faults = NoFaults
    /\ query_time = RInt(0)
    /\ contribution = RInt(0)
    /\ inflight = <<>>

Smooth ==
    /\ pc = "smooth_in"
    /\ smoothed' = apply_moving_average(series, half_window)
    /\ pc' = "smooth_out"
    /\ UNCHANGED <<ext_vars, samples, body, request, camera_mappings, target, predictions, outcome,
                   access, series, half_window, faults, interp_vars, inflight>>

SmoothNext == Smooth

SpecSmooth == SmoothInit /\ [][SmoothNext]_vars

\* ------- aggregate_time_series of a service whose cameras carry the flag
\* PredictionService(prediction_repository, camera_mappings) constructed with
\* camera positions that have the enable_masking attribute, so that every
\* query of get_predictions_for_area is executed; a query may end with an
\* error of the store.
FetchInit ==
    /\ ExtIdle
    /\ samples \in [CameraNames -> FetchRecords(MaxFetchSamples)]
    /\ faults \in [CameraNames -> StoreErrors \cup {""}]
    /\ pc = "fetch_in"
    /\ body = NoBody
    /\ request \in [end_date : {EndDate},
                    lookback_hours : {Float(2, 240), Float(MaxLookbackTicks, 240)},
                    half_moving_avg_size : {0}]
    /\ camera_mappings = MaskedMappings
    /\ target \in {<<"p1", "a1">>, <<"p1", "a2">>}
    /\ predictions = <<>>
    /\ outcome = NoResponse
    /\ access = NoAccess
    /\ series = <<>>
    /\ half_window = 0
    /\ smoothed = Ok(<<>>)
    /\ query_time = RInt(0)
    /\ contribution = RInt(0)
    /\ inflight = <<>>

AggregateWithMasking ==
    /\ pc = "fetch_in"
    /\ LET r == aggregate_time_series(camera_mappings, samples, faults, target[1], target[2],
                                      request)
       IN  /\ predictions' = r.predictions
           /\ outcome' = r.response
           /\ access' = [access EXCEPT !.fetch_calls = @ + r.fetch_calls,
                                       !.queries = @ + r.queries]
    /\ pc' = "fetch_out"
    /\ UNCHANGED <<ext_vars, samples, body, request, camera_mappings, target, smooth_vars, faults,
                   interp_vars, inflight>>

FetchNext == AggregateWithMasking

SpecFetch == FetchInit /\ [][FetchNext]_vars

\* ----------------------------------- requests served at the same time
\* The endpoint is a plain def: each request runs aggregate_time_series in a
\* worker thread of its own, on a PredictionService of its own.  A request
\* takes its steps between the steps of the others; a step ends where the
\* request reads a store.
Requests == {"r1", "r2"}

ConcTargets == {<<"p1", "a0">>, <<"p1", "a2">>, <<"p1", "ax">>}

ConcRequests ==
    [end_date : {EndDate}, lookback_hours : {Float(2, 240), FieldTuple},
     half_moving_avg_size : {0}]

\* Prediction stores in which a camera position has a record at EndDate or none
ConcStores ==
    {[c \in CameraNames |->
        IF c \in S THEN <<[timestamp |-> EndDate, counts |-> FullCounts]>> ELSE <<>>] :
     S \in SUBSET CameraNames}

\* The locals of a request that has not arrived
NoLocals ==
    [pc |-> "idle", target |-> <<"", "">>, request |-> NoRequest, camera_mappings |-> <<>>,
     area |-> <<>>, predictions |-> <<>>, outcome |-> NoResponse]

\* A plausible slip: the resolved area is kept on a service that the requests
\* share, so a request reads the area another request resolved.
AreaOfSharedService(r) ==
    IF inflight["r1"].pc \in {"fetching", "done"} /\ inflight["r1"].area # <<>>
    THEN inflight["r1"].area ELSE inflight[r].area

\* The local variable area of the call of request r
AreaOf(r) == inflight[r].area

ConcInit ==
    /\ ExtIdle
    /\ samples \in ConcStores
    /\ faults = NoFaults
    /\ pc = "serving"
    /\ body = NoBody
    /\ request = NoRequest
    /\ camera_mappings = <<>>
    /\ target = <<"", "">>
    /\ predictions = <<>>
    /\ outcome = NoResponse
    /\ access = NoAccess
    /\ series = <<>>
    /\ half_window = 0
    /\ smoothed = Ok(<<>>)
    /\ query_time = RInt(0)
    /\ contribution = RInt(0)
    /\ inflight = [r \in Requests |-> NoLocals]

conc_frame == <<ext_vars, samples, pc, body, request, camera_mappings, target, predictions, outcome,
                access, smooth_vars, faults, interp_vars>>

\* A validated request for a project and an area arrives.
Arrive(r) ==
    /\ inflight[r].pc = "idle"
    /\ \E t \in ConcTargets, q \in ConcRequests :
          inflight' = [inflight EXCEPT ![r] = [@ EXCEPT !.pc = "arrived", !.target = t,
                                                       !.request = q]]
    /\ UNCHANGED conc_frame

\* The service of the request is constructed: by get_prediction_service, which
\* reads the camera mappings from the project store, or with camera positions
\* that carry the enable_masking attribute.
Construct(r) ==
    /\ inflight[r].pc = "arrived"
    /\ \E m \in {get_camera_mappings(ProjectDocs), MaskedMappings} :
          inflight' = [inflight EXCEPT ![r] = [@ EXCEPT !.pc = "ready", !.camera_mappings = m]]
    /\ UNCHANGED conc_frame

\* Steps 1 and 2 of aggregate_time_series
ResolveArea(r) ==
    /\ inflight[r].pc = "ready"
    /\ LET l == inflight[r]
           area == get_area(l.camera_mappings, l.target[1], l.target[2])
       IN  inflight' = [inflight EXCEPT ![r] =
               IF area = <<>>
               THEN [l EXCEPT !.pc = "done",
                              !.outcome = HttpError(404,
                                  not_found_detail(l.camera_mappings, l.target[1]), <<>>)]
               ELSE IF l.request.lookback_hours.kind = "tuple"
               THEN [l EXCEPT !.pc = "done", !.area = area, !.outcome = Uncaught("TypeError")]
               ELSE [l EXCEPT !.pc = "fetching", !.area = area]]
    /\ UNCHANGED conc_frame

\* Step 3, one turn of the loop of get_predictions_for_area
FetchCamera(r) ==
    /\ inflight[r].pc = "fetching"
    /\ Len(inflight[r].predictions) < Len(AreaOf(r)[1].cameras)
    /\ LET l == inflight[r]
           camera == AreaOf(r)[1].cameras[Len(l.predictions) + 1]
           fetched == FetchFrom(samples, faults, l.target[2], <<camera>>,
                                StartDt(l.request.end_date, l.request.lookback_hours),
                                l.request.end_date, 1, <<>>)
       IN  inflight' = [inflight EXCEPT ![r] =
               IF fetched.raised # ""
               THEN [l EXCEPT !.pc = "done", !.predictions = <<>>,
                              !.outcome = Uncaught(fetched.raised)]
               ELSE [l EXCEPT !.predictions = l.predictions \o fetched.val]]
    /\ UNCHANGED conc_frame

\* Steps 4 to 10, once every camera of the area is fetched
ClassifyFetched(r) ==
    /\ inflight[r].pc = "fetching"
    /\ Len(inflight[r].predictions) >= Len(AreaOf(r)[1].cameras)
    /\ LET l == inflight[r]
       IN  inflight' = [inflight EXCEPT ![r] =
               [l EXCEPT !.pc = "done",
                         !.outcome = Classify(l.predictions,
                                         StartDt(l.request.end_date, l.request.lookback_hours),
                                         l.request)]]
    /\ UNCHANGED conc_frame

ConcNext ==
    \E r \in Requests :
        \/ Arrive(r)
        \/ Construct(r)
        \/ ResolveArea(r)
        \/ FetchCamera(r)
        \/ ClassifyFetched(r)

SpecConc == ConcInit /\ [][ConcNext]_vars

\* ------------- one function of create_interpolation_functions on its own
\* The times the function is evaluated at: every 5 seconds from before the
\* first possible sample to after the last.
QueryInstants == {5 * k : k \in 0..(3 * (MaxTick + 1))}

\* A window that holds every instant, the PredictionData of one camera position
\* with at least one sample in it, and a time in seconds since start_dt.
InterpInit ==
    /\ ExtIdle
    /\ samples = [c \in CameraNames |-> <<>>]
    /\ pc = "interp_in"
    /\ body = NoBody
    /\ request \in [end_date : {EndDate},
                    lookback_hours : {Float(MaxTick, 240), Float(MaxTick - 1, 240)},
                    half_moving_avg_size : {0}]
    /\ camera_mappings = <<>>
    /\ target = <<"", "">>
    /\ LET start_dt == StartDt(request.end_date, request.lookback_hours)
       IN  /\ predictions \in
                 {<<PredictionData(f.dates, f.counts, "c1", "left")>> :
                    f \in {g \in FetchedSamples(MaxInterpSamples, start_dt, request.end_date) :
                             Len(g.dates) > 0}}
           /\ query_time \in {RInt(t - start_dt) : t \in QueryInstants}
    /\ outcome = NoResponse
    /\ access = NoAccess
    /\ series = <<>>
    /\ half_window = 0
    /\ smoothed = Ok(<<>>)
    /\ faults = NoFaults
    /\ contribution = RInt(0)
    /\ inflight = <<>>

Interpolate ==
    /\ pc = "interp_in"
    /\ contribution' = InterpolationFunc(predictions[1],
                                         StartDt(request.end_date, request.lookback_hours),
                                         query_time)
    /\ pc' = "interp_out"
    /\ UNCHANGED <<ext_vars, samples, body, request, camera_mappings, target, predictions, outcome,
                   access, smooth_vars, faults, query_time, inflight>>

InterpNext == Interpolate

SpecInterp == InterpInit /\ [][InterpNext]_vars

\* ------------------------------------- a Camera and the model it selects
SchedInit ==
    /\ BaseIdle
    /\ pc = "unvalidated"
    /\ schedules \in ScheduleLists(MaxSchedules)
    /\ current_time = 0
    /\ active_model = ""
    /\ ProjectIdle
    /\ RowsIdle
    /\ GatherIdle

\* Camera(...): the model validator runs after the fields are set
ValidateCamera ==
    /\ pc = "unvalidated"
    /\ pc' = IF validate_no_schedule_overlap(schedules).raised # "" THEN "invalid" ELSE "camera"
    /\ UNCHANGED <<base_vars, schedule_vars, project_vars, rows_vars, gather_vars>>

\* camera.get_active_model(current_time)
GetActiveModel ==
    /\ pc \in {"camera", "asked"}
    /\ \E t \in TimesOfDay :
         /\ current_time' = t
         /\ active_model' = get_active_model(schedules, STANDARD, t)
    /\ pc' = "asked"
    /\ UNCHANGED <<base_vars, schedules, project_vars, rows_vars, gather_vars>>

SchedNext == ValidateCamera \/ GetActiveModel

SpecSchedule == SchedInit /\ [][SchedNext]_vars


\* ------------------------------------------ the methods of ProjectService
\* One caller awaits one method after the other, on a project that starts
\* without cameras and areas.
ProjectInit ==
    /\ BaseIdle
    /\ ScheduleIdle
    /\ RowsIdle
    /\ GatherIdle
    /\ pc = "project"
    /\ stored_project = Project(<<>>, <<>>)
    /\ calls = [c \in {"m1"} |-> NoCall]

\* A method other than delete_project, from get_project to the project it is
\* about to write: the project is loaded, checked and changed in memory.
Mutate(c) ==
    /\ c \in DOMAIN calls
    /\ calls[c].at = "idle"
    /\ \E o \in Mutations :
         LET m == Mutated(stored_project, o)
         IN  calls' = [calls EXCEPT ![c] =
                         IF m.raised # ""
                         THEN Call(o, "returned", NoProject, "", 0, "", m.raised)
                         ELSE Call(o, "modified", m.val, "", 0, "", "")]
    /\ UNCHANGED <<base_vars, pc, rows_vars, gather_vars, schedule_vars, stored_project>>

\* delete_project up to the return of repository.delete_project
DeleteProject(c) ==
    /\ c \in DOMAIN calls
    /\ calls[c].at = "idle"
    /\ LET o == Operation("delete_project", "", "", 0, "")
       IN  IF stored_project.exists
           THEN /\ stored_project' = NoProject
                /\ calls' = [calls EXCEPT ![c] = Call(o, "written", NoProject, "deleted", 0, "", "")]
           ELSE /\ stored_project' = stored_project
                /\ calls' = [calls EXCEPT ![c] = Call(o, "returned", NoProject, "not_found", 0, "", "False")]
    /\ UNCHANGED <<base_vars, pc, rows_vars, gather_vars, schedule_vars>>

\* repository.update_project: replace_item of the whole document, None when
\* there is no document to replace
UpdateProject(c) ==
    /\ c \in DOMAIN calls
    /\ calls[c].at = "modified"
    /\ IF stored_project.exists
       THEN /\ stored_project' = calls[c].project
            /\ calls' = [calls EXCEPT ![c].at = "written", ![c].found = "replaced"]
       ELSE /\ stored_project' = stored_project
            /\ calls' = [calls EXCEPT ![c].at = "written", ![c].found = "not_found"]
    /\ UNCHANGED <<base_vars, pc, rows_vars, gather_vars, schedule_vars>>

\* await self.cache_service.clear_project_cache(...)
ClearProjectCache(c) ==
    /\ c \in DOMAIN calls
    /\ calls[c].at = "written"
    /\ \E success \in ClearCacheOutcomes :
         calls' = [calls EXCEPT ![c].clears = @ + 1,
                                ![c].cleared = success,
                                ![c].at = IF success = "TypeError" THEN "returned" ELSE "cleared",
                                ![c].result = IF success = "TypeError" THEN "TypeError" ELSE ""]
    /\ UNCHANGED <<base_vars, pc, rows_vars, gather_vars, schedule_vars, stored_project>>

\* return Project.model_validate(updated_item), or return success
Return(c) ==
    /\ c \in DOMAIN calls
    /\ calls[c].at = "cleared"
    /\ calls' = [calls EXCEPT ![c].at = "returned",
                              ![c].result = IF calls[c].operation.op = "delete_project" THEN "True"
                                            ELSE IF calls[c].found = "not_found"
                                            THEN "ValidationError"
                                            ELSE "success"]
    /\ UNCHANGED <<base_vars, pc, rows_vars, gather_vars, schedule_vars, stored_project>>

\* The caller goes on to its next call
Again(c) ==
    /\ c \in DOMAIN calls
    /\ calls[c].at = "returned"
    /\ calls' = [calls EXCEPT ![c] = NoCall]
    /\ UNCHANGED <<base_vars, pc, rows_vars, gather_vars, schedule_vars, stored_project>>

ProjectNext ==
    \E c \in Callers :
       \/ Mutate(c)
       \/ DeleteProject(c)
       \/ UpdateProject(c)
       \/ ClearProjectCache(c)
       \/ Return(c)
       \/ Again(c)

SpecProject == ProjectInit /\ [][ProjectNext]_vars

\* Two callers, each awaiting one method, in processes of their own: the
\* accesses to the store of the one are taken in any order with those of the
\* other.
MutationsInit ==
    /\ BaseIdle
    /\ ScheduleIdle
    /\ RowsIdle
    /\ GatherIdle
    /\ pc = "mutations"
    /\ stored_project \in {Project(<<>>, <<>>), Project(<<"c1">>, <<Area("a1")>>)}
    /\ calls = [c \in Callers |-> NoCall]

MutationsNext ==
    \E c \in Callers :
       \/ Mutate(c)
       \/ DeleteProject(c)
       \/ UpdateProject(c)
       \/ ClearProjectCache(c)
       \/ Return(c)

SpecMutations == MutationsInit /\ [][MutationsNext]_vars


\* ---------------------------------------- _process_camera_query on its own
\* The rows a query can return: with or without a timestamp, which is in the
\* format or not, and with or without counts, which have a count per area or
\* the total only.
Unparsable == -1

QueryRows ==
    LET stamps == {15, 30, Unparsable}
        counted == {FullCounts, TotalOnly}
    IN  {[timestamp |-> t, counts |-> c] : t \in stamps, c \in counted}
        \cup {[timestamp |-> t] : t \in stamps}
        \cup {[counts |-> c] : c \in counted}

RowsInit ==
    /\ ScheduleIdle
    /\ ProjectIdle
    /\ GatherIdle
    /\ samples = [c \in CameraNames |-> <<>>]
    /\ pc = "queried"
    /\ body = NoBody
    /\ request = NoRequest
    /\ camera_mappings = <<>>
    /\ target \in {<<"p1", "a1">>, <<"p1", "ax">>}
    /\ predictions = <<>>
    /\ outcome = NoResponse
    /\ access = NoAccess
    /\ series = <<>>
    /\ half_window = 0
    /\ smoothed = Ok(<<>>)
    /\ faults = NoFaults
    /\ query_time = RInt(0)
    /\ contribution = RInt(0)
    /\ inflight = <<>>
    /\ query_results \in UNION {[1..n -> QueryRows] : n \in 0..MaxRows}
    /\ masking \in BOOLEAN

\* The row loop of _process_camera_query and the PredictionData it returns
ProcessCameraQuery ==
    /\ pc = "queried"
    /\ predictions' = <<process_camera_query(query_results, target[2], "c1", "left", masking)>>
    /\ pc' = "processed"
    /\ UNCHANGED <<ext_vars, samples, body, request, camera_mappings, target, outcome, access,
                   smooth_vars, faults, interp_vars, inflight>>

RowsNext == ProcessCameraQuery

SpecRows == RowsInit /\ [][RowsNext]_vars


\* ------------------------------------------ _retrieve_all_predictions alone
\* The fetches of the pairs of area a2 have been started; each completes at
\* its own time.
GatherInit ==
    /\ ScheduleIdle
    /\ ProjectIdle
    /\ RowsIdle
    /\ samples \in [CameraNames -> StoredRecords(MaxStoreSamples)]
    /\ pc = "gathering"
    /\ body = NoBody
    /\ request = [end_date |-> EndDate, lookback_hours |-> Float(MaxLookbackTicks, 240),
                  half_moving_avg_size |-> 0]
    /\ camera_mappings = <<>>
    /\ target = <<"p1", "a2">>
    /\ predictions = <<>>
    /\ outcome = NoResponse
    /\ access = NoAccess
    /\ series = <<>>
    /\ half_window = 0
    /\ smoothed = Ok(<<>>)
    /\ faults = NoFaults
    /\ query_time = RInt(0)
    /\ contribution = RInt(0)
    /\ inflight = <<>>
    /\ fetches = [awaited |-> [i \in 1..Len(area_cps[target[2]]) |-> PendingFetch],
                  order |-> <<>>]
    /\ all_preds = <<>>
    /\ legacy_outcome = NoOutput

\* retrieve_dates_and_counts of one pair runs to its end
CompleteFetch ==
    /\ pc = "gathering"
    /\ \E i \in 1..Len(fetches.awaited) :
         /\ ~fetches.awaited[i].done
         /\ fetches' =
              [awaited |-> [fetches.awaited EXCEPT ![i] =
                              CompletedFetch(retrieve_dates_and_counts(
                                  legacy_query_items(samples, area_cps[target[2]][i],
                                      StartDt(request.end_date, request.lookback_hours),
                                      request.end_date),
                                  target[2]))],
               order |-> Append(fetches.order, i)]
    /\ UNCHANGED <<base_vars, pc, schedule_vars, project_vars, rows_vars, all_preds,
                   legacy_outcome>>

\* await asyncio.gather(...) returns once every fetch has completed
ReturnAllPreds ==
    /\ pc = "gathering"
    /\ \A i \in 1..Len(fetches.awaited) : fetches.awaited[i].done
    /\ all_preds' = zip(gather(fetches.awaited, fetches.order), area_cps[target[2]])
    /\ pc' = "retrieved"
    /\ UNCHANGED <<base_vars, schedule_vars, project_vars, rows_vars, fetches, legacy_outcome>>

GatherNext == CompleteFetch \/ ReturnAllPreds

SpecGather == GatherInit /\ [][GatherNext]_vars


\* ------------------- the two services on the same predictions of area a2
\* What was fetched for the pairs of the area, as _retrieve_all_predictions
\* hands it to _construct_interpolation_funcs
AllPredsOf(preds) ==
    [i \in 1..Len(preds) |->
        << <<preds[i].dates, preds[i].counts>>, <<preds[i].camera_id, preds[i].position>> >>]

\* CountAdditionService.__call__ on the predictions fetched
CallLegacy ==
    /\ pc \in {"fetched", "answered"}
    /\ legacy_outcome = NoOutput
    /\ legacy_outcome' = legacy_call(AllPredsOf(predictions),
                                     StartDt(request.end_date, request.lookback_hours), request)
    /\ UNCHANGED <<base_vars, pc, schedule_vars, project_vars, rows_vars, fetches, all_preds>>

LegacyNext == Answer \/ CallLegacy

SpecLegacy == SumInit /\ [][LegacyNext]_vars

\* ------------------------------------------------------------------ claims
Resolved ==
    /\ target[1] \in DOMAIN camera_mappings
    /\ target[2] \in DOMAIN camera_mappings[target[1]].areas

TargetCameras == camera_mappings[target[1]].areas[target[2]].cameras

WindowStart == StartDt(request.end_date, request.lookback_hours)

\* The stored records of a camera position that lie in the request's window
InWindow(camera) == QueryItems(samples, camera, WindowStart, request.end_date)

PositiveLookback == request.lookback_hours.kind = "float" /\ request.lookback_hours.n > 0

\* The enable_masking value configured for the i-th camera of the target area
ConfiguredMasking(i) ==
    LET doc == ProjectDocs[CHOOSE d \in DOMAIN ProjectDocs : ProjectDocs[d].id = target[1]]
        area == doc.areas[CHOOSE a \in DOMAIN doc.areas : doc.areas[a].id = target[2]]
    IN  area.camera_configs[i].enable_masking

\* The key of a stored record's counts that is to be read for that camera
CountKey(i) == IF ConfiguredMasking(i) THEN target[2] ELSE "total"

\* C1: for an existing project and area, when no camera position of the area
\* has a stored sample in the window, aggregate_time_series answers 200 with
\* an empty time_series and an empty camera_timestamps.
C1Claim ==
    (/\ pc = "done"
     /\ Resolved
     /\ PositiveLookback
     /\ \A i \in 1..Len(TargetCameras) : InWindow(TargetCameras[i]) = <<>>)
    => outcome = Success(<<>>, <<>>)

\* C2: when some camera position of the area has a sample in the window and
\* another has none, aggregate_time_series answers 422 and names exactly the
\* camera positions without samples.
C2Claim ==
    (/\ pc = "done"
     /\ Resolved
     /\ PositiveLookback
     /\ \E i \in 1..Len(TargetCameras) : InWindow(TargetCameras[i]) # <<>>
     /\ \E i \in 1..Len(TargetCameras) : InWindow(TargetCameras[i]) = <<>>)
    => /\ outcome.kind = "http_error"
       /\ outcome.status = 422
       /\ {outcome.missing[k] : k \in 1..Len(outcome.missing)}
            = {CameraName(TargetCameras[i]) :
                 i \in {j \in 1..Len(TargetCameras) : InWindow(TargetCameras[j]) = <<>>}}

\* C3: an unknown project is answered 404 "Project not found", an unknown
\* area of a known project 404 "Area not found in project", and in both cases
\* the repository was not called and the prediction store not queried.
C3Theorem ==
    pc = "done" =>
      /\ target[1] \notin DOMAIN camera_mappings
           => /\ outcome = HttpError(404, "Project not found", <<>>)
              /\ access.fetch_calls = 0 /\ access.queries = 0
      /\ (target[1] \in DOMAIN camera_mappings /\ ~Resolved)
           => /\ outcome = HttpError(404, "Area not found in project", <<>>)
              /\ access.fetch_calls = 0 /\ access.queries = 0

C3Witness ==
    /\ pc = "done"
    /\ target = <<"p1", "ax">>
    /\ outcome.status = 404
    /\ access.project_reads = 1

\* C4: a success response with a non-empty time_series has at least one
\* camera_timestamps entry for every camera position of the area, each of
\* which returned at least one sample.
C4Theorem ==
    (pc = "answered" /\ outcome.kind = "success" /\ outcome.time_series # <<>>)
    => \A i \in 1..Len(predictions) :
          /\ has_data(predictions[i])
          /\ \E j \in 1..Len(outcome.camera_timestamps) :
                /\ outcome.camera_timestamps[j].camera_id = predictions[i].camera_id
                /\ outcome.camera_timestamps[j].position = predictions[i].position

C4Witness ==
    /\ pc = "answered"
    /\ outcome.kind = "success"
    /\ outcome.time_series # <<>>
    /\ Len(predictions) = 2

\* C5: when every camera position of the area returned at least one sample,
\* lookback_hours > 0 and half_moving_avg_size >= 0, the answer is a success
\* whose time_series has floor(lookback_hours * 120) points.
C5Claim ==
    (/\ pc = "answered"
     /\ PositiveLookback
     /\ request.half_moving_avg_size >= 0
     /\ \A i \in 1..Len(predictions) : has_data(predictions[i]))
    => /\ outcome.kind = "success"
       /\ Len(outcome.time_series) = GridSize(request.lookback_hours)

\* C6: every point of an answered time_series has a value >= 0, and no
\* answer is lost to a point with a negative value, also where the
\* extrapolation of a camera or the smoothed sum is below zero.
C6Theorem ==
    pc = "answered" =>
      /\ outcome.detail # "ValidationError"
      /\ \A i \in 1..Len(outcome.time_series) : outcome.time_series[i].value >= 0

\* A point whose smoothed sum is negative was answered with the value 0.
C6Witness ==
    /\ pc = "answered"
    /\ outcome.kind = "success"
    /\ LET start_dt == WindowStart
           grid == TimeGrid(create_interpolation_functions(predictions, start_dt).val,
                            start_dt, request)
       IN  \E i \in 1..Len(outcome.time_series) :
              /\ RLess(SmoothedValues(predictions, grid, start_dt, request).val[i], RInt(0))
              /\ outcome.time_series[i].value = 0

\* C7: a body with lookback_hours <= 0 or half_moving_avg_size < 0 is
\* rejected with a validation error and causes no store access.
C7Claim ==
    (/\ pc # "idle"
     /\ \/ body.lookback_hours.kind = "float" /\ body.lookback_hours.n <= 0
        \/ body.half_moving_avg_size.kind = "float" /\ body.half_moving_avg_size.n < 0)
    => /\ pc = "rejected"
       /\ outcome.kind = "validation_error"
       /\ access = NoAccess

\* C8: a body without lookback_hours is processed with lookback_hours = 3.0,
\* and a body without half_moving_avg_size with half_moving_avg_size = 0.
C8Claim ==
    pc \in {"parsed", "ready", "done"} =>
      /\ body.lookback_hours.kind = "absent" => request.lookback_hours = Float(3, 1)
      /\ body.half_moving_avg_size.kind = "absent" => request.half_moving_avg_size = 0

\* C9: apply_moving_average(series, 0) returns the series, element for
\* element, the empty series included.
C9Theorem ==
    (pc = "smooth_out" /\ half_window = 0) => smoothed = Ok(series)

C9Witness ==
    /\ pc = "smooth_out"
    /\ half_window = 0
    /\ Len(series) = 2
    /\ series[1] # series[2]
    /\ smoothed.val = series

\* C10: for every series, the empty one included, and every half window
\* h >= 0, apply_moving_average returns a series of the same length.
C10Claim ==
    (pc = "smooth_out" /\ half_window >= 0)
    => /\ smoothed.raised = ""
       /\ Len(smoothed.val) = Len(series)

\* The element of the series nearest to index j: the series continued to the
\* left with its first value and to the right with its last.
EdgeExtended(j) == series[IF j < 1 THEN 1 ELSE IF j > Len(series) THEN Len(series) ELSE j]

\* C11: for a half window h > 0 and a non-empty series, element i of the
\* result of apply_moving_average is the mean of the 2h+1 elements i-h .. i+h
\* of the series continued at both ends with its boundary value (not with
\* zeros), and a constant series is returned unchanged.
C11Theorem ==
    (pc = "smooth_out" /\ half_window > 0 /\ Len(series) > 0)
    => /\ smoothed.raised = ""
       /\ DOMAIN smoothed.val = 1..Len(series)
       /\ \A i \in 1..Len(series) :
             RMul(smoothed.val[i], RInt(2 * half_window + 1))
               = RSum([k \in 1..(2 * half_window + 1) |-> EdgeExtended(i - half_window + k - 1)])
       /\ (\A i \in 1..Len(series) : series[i] = series[1]) => smoothed.val = series

\* The first mean of <<10, 0>> with h = 1 is (10 + 10 + 0) / 3: the missing
\* left neighbour counted as 10, not as 0.
C11Witness ==
    /\ pc = "smooth_out"
    /\ half_window = 1
    /\ series = <<RInt(10), RInt(0)>>
    /\ smoothed.val[1] = <<20, 3>>

\* C13: when every camera position of the area has exactly one stored sample
\* in the window, the request is answered (no error, not as missing data)
\* with a time_series of floor(lookback_hours * 120) points, and each camera
\* contributes its sample's count at every point: every value is the sum of
\* the cameras' counts, each taken under the key its masking flag selects.
C13Claim ==
    (/\ pc = "done"
     /\ Resolved
     /\ PositiveLookback
     /\ TargetCameras # <<>>
     /\ \A i \in 1..Len(TargetCameras) : Len(InWindow(TargetCameras[i])) = 1)
    => /\ outcome.kind = "success"
       /\ Len(outcome.time_series) = GridSize(request.lookback_hours)
       /\ \A g \in 1..Len(outcome.time_series) :
             RInt(outcome.time_series[g].value)
               = RSum([i \in 1..Len(TargetCameras) |->
                         RInt(InWindow(TargetCameras[i])[1].counts[CountKey(i)])])

\* The sample times of the camera evaluated alone, in seconds since start_dt
SampleTimes == [j \in 1..Len(predictions[1].dates) |-> predictions[1].dates[j] - WindowStart]

\* The value at query_time lies on the straight line through samples j and j+1.
OnSegment(j) ==
    RMul(contribution, RInt(SampleTimes[j + 1] - SampleTimes[j]))
      = RAdd(RMul(RInt(predictions[1].counts[j]), RSub(RInt(SampleTimes[j + 1]), query_time)),
             RMul(RInt(predictions[1].counts[j + 1]), RSub(query_time, RInt(SampleTimes[j]))))

\* C14: the interpolation function of a camera with two or more samples
\* gives, at a time between two consecutive samples, the value on the straight
\* line through them, at a time before the first sample the value on the line
\* through the first two samples, and at a time after the last sample the
\* value on the line through the last two.
C14Theorem ==
    (pc = "interp_out" /\ Len(predictions[1].dates) >= 2)
    => LET n == Len(predictions[1].dates)
       IN  \A j \in 1..(n - 1) :
              (\/ /\ ~RLess(query_time, RInt(SampleTimes[j]))
                  /\ ~RLess(RInt(SampleTimes[j + 1]), query_time)
               \/ j = 1 /\ RLess(query_time, RInt(SampleTimes[1]))
               \/ j = n - 1 /\ RLess(RInt(SampleTimes[n]), query_time))
              => OnSegment(j)

\* After the last of three samples the value continues the last segment and
\* is not the count of the last sample.
C14Witness ==
    /\ pc = "interp_out"
    /\ Len(predictions[1].dates) = 3
    /\ RLess(RInt(SampleTimes[3]), query_time)
    /\ predictions[1].counts[2] # predictions[1].counts[3]
    /\ contribution # RInt(predictions[1].counts[3])
    /\ OnSegment(2)

\* The sample timestamps of all cameras of the answered request
FetchedDates == AllDates(predictions)

\* C15: a time_series of two or more points, answered when every camera of
\* the area has data, starts at the earliest and ends at the latest sample
\* timestamp of all cameras (not at the bounds of the requested window), and
\* its timestamps are equally spaced.
C15Theorem ==
    (/\ pc = "answered"
     /\ \A i \in 1..Len(predictions) : has_data(predictions[i])
     /\ outcome.kind = "success"
     /\ Len(outcome.time_series) >= 2)
    => LET ts == outcome.time_series
           n == Len(ts)
       IN  /\ ts[1].timestamp = RInt(SetMin(FetchedDates))
           /\ ts[n].timestamp = RInt(SetMax(FetchedDates))
           /\ \A i \in 1..(n - 2) :
                 RSub(ts[i + 1].timestamp, ts[i].timestamp)
                   = RSub(ts[i + 2].timestamp, ts[i + 1].timestamp)
           /\ \A i \in 1..(n - 1) :
                 RMul(RSub(ts[i + 1].timestamp, ts[i].timestamp), RInt(n - 1))
                   = RInt(SetMax(FetchedDates) - SetMin(FetchedDates))

\* Two cameras whose samples begin after the start of the window and end
\* before its end: the grid of three or more points spans the samples only.
C15Witness ==
    /\ pc = "answered"
    /\ outcome.kind = "success"
    /\ Len(predictions) = 2
    /\ Len(outcome.time_series) >= 3
    /\ WindowStart < SetMin(FetchedDates)
    /\ SetMin(FetchedDates) < SetMax(FetchedDates)
    /\ SetMax(FetchedDates) < request.end_date
    /\ outcome.time_series[1].timestamp = RInt(SetMin(FetchedDates))
    /\ RLess(outcome.time_series[2].timestamp, outcome.time_series[3].timestamp)

\* The cameras of the target area, in area order, whose query ends with an error
FailingCameras == {i \in 1..Len(TargetCameras) : faults[CameraName(TargetCameras[i])] # ""}

\* C16: when the query of some camera position of the area ends with an error
\* of the store, aggregate_time_series ends with that error (of the first such
\* camera in area order): no success, no partial-data answer naming the
\* camera, and every camera up to the failing one was queried once, none
\* twice and none after it.
C16Theorem ==
    pc = "fetch_out" =>
      /\ access.queries <= Len(TargetCameras)
      /\ FailingCameras # {} =>
            /\ outcome = Uncaught(faults[CameraName(TargetCameras[SetMin(FailingCameras)])])
            /\ outcome.kind \notin {"success", "http_error"}
            /\ outcome.missing = <<>>
            /\ predictions = <<>>
            /\ access.queries = SetMin(FailingCameras)

\* The query of the first camera returned a sample, the query of the second
\* timed out: the request ends with the timeout after two queries.
C16Witness ==
    /\ pc = "fetch_out"
    /\ target = <<"p1", "a2">>
    /\ faults[<<"c1", "left">>] = ""
    /\ faults[<<"c2", "left">>] = "CosmosClientTimeoutError"
    /\ InWindow(TargetCameras[1]) # <<>>
    /\ outcome.detail = "CosmosClientTimeoutError"
    /\ access.queries = 2

\* C17: for each camera position of the area, the counts the repository hands
\* back are those of its stored samples in the window, read under the key
\* area_id when enable_masking is configured for the camera and under
\* "total" when it is not.
C17Claim ==
    (pc = "done" /\ Resolved /\ PositiveLookback)
    => /\ Len(predictions) = Len(TargetCameras)
       /\ \A i \in 1..Len(TargetCameras) :
             predictions[i].counts
               = [j \in 1..Len(InWindow(TargetCameras[i])) |->
                    InWindow(TargetCameras[i])[j].counts[CountKey(i)]]

\* The other orders the cameras of the answered request can be listed in
CameraOrders ==
    {f \in [1..Len(predictions) -> 1..Len(predictions)] :
        /\ \A i, j \in 1..Len(predictions) : f[i] = f[j] => i = j
        /\ \E i \in 1..Len(predictions) : f[i] # i}

\* The answer to the same per-camera samples with the cameras listed in order f
AnswerInOrder(f) ==
    Classify([i \in 1..Len(predictions) |-> predictions[f[i]]], WindowStart, request)

\* C18: listing the cameras of the area in another order, each with the same
\* samples, gives the same kind of outcome and the same time_series.
C18Theorem ==
    pc = "answered" =>
      \A f \in CameraOrders :
         LET other == AnswerInOrder(f)
         IN  /\ other.kind = outcome.kind
             /\ other.status = outcome.status
             /\ other.time_series = outcome.time_series

\* Two cameras with different samples, answered with a time_series: in the
\* other order camera_timestamps differs, the time_series does not.
C18Witness ==
    /\ pc = "answered"
    /\ Len(predictions) = 2
    /\ predictions[1].dates # predictions[2].dates
    /\ Len(predictions[1].dates) = 2
    /\ outcome.kind = "success"
    /\ Len(outcome.time_series) >= 2
    /\ AnswerInOrder(<<2, 1>>).camera_timestamps # outcome.camera_timestamps
    /\ AnswerInOrder(<<2, 1>>).time_series = outcome.time_series

\* The number of samples of the cameras listed before camera i
SamplesBefore(i) == RSum([k \in 1..(i - 1) |-> RInt(Len(predictions[k].dates))])[1]

\* C20: when the cameras' samples were aggregated, camera_timestamps has one
\* entry per fetched sample and no other: the entries of a camera follow
\* those of the cameras listed before it, in the order of its samples, each
\* with the camera_id and position of the camera and the timestamp of the
\* sample.
C20Theorem ==
    (/\ pc = "answered"
     /\ outcome.kind = "success"
     /\ \E i \in 1..Len(predictions) : has_data(predictions[i]))
    => LET ct == outcome.camera_timestamps
       IN  /\ DOMAIN ct = 1..SamplesBefore(Len(predictions) + 1)
           /\ \A i \in 1..Len(predictions) : \A j \in 1..Len(predictions[i].dates) :
                 ct[SamplesBefore(i) + j]
                   = [camera_id |-> predictions[i].camera_id,
                      position |-> predictions[i].position,
                      timestamp |-> predictions[i].dates[j]]

\* Two cameras with two samples and one: three entries, while the time_series
\* has a point at a time that is no sample's.
C20Witness ==
    /\ pc = "answered"
    /\ outcome.kind = "success"
    /\ Len(predictions) = 2
    /\ Len(predictions[1].dates) = 2
    /\ Len(predictions[2].dates) = 1
    /\ Len(outcome.camera_timestamps) = 3
    /\ outcome.camera_timestamps[3].camera_id = "c2"
    /\ \E g \in 1..Len(outcome.time_series) :
          \A k \in 1..3 :
             outcome.time_series[g].timestamp # RInt(outcome.camera_timestamps[k].timestamp)

\* What request r is answered when it is served alone
RunAlone(r) ==
    aggregate_time_series(inflight[r].camera_mappings, samples, faults,
                          inflight[r].target[1], inflight[r].target[2],
                          inflight[r].request).response

\* A step leaves the stores as they were, and the camera mappings of every
\* service that is constructed.
NothingWritten ==
    /\ samples' = samples
    /\ faults' = faults
    /\ \A r \in DOMAIN inflight :
          inflight[r].pc \in {"ready", "fetching", "done"}
          => inflight'[r].camera_mappings = inflight[r].camera_mappings

\* C19: of requests served at the same time, in whatever order their steps
\* are taken, each is answered what it is answered when served alone; no step
\* of aggregate_time_series changes the camera mappings of a service or
\* writes to a store.
C19Theorem ==
    /\ [](\A r \in DOMAIN inflight : inflight[r].pc = "done" => inflight[r].outcome = RunAlone(r))
    /\ [][NothingWritten]_vars

\* r2 was answered a time_series for area a2 while r1, asked for the same
\* area, is between its two fetches.
C19Witness ==
    /\ pc = "serving"
    /\ inflight["r1"].pc = "fetching"
    /\ inflight["r1"].target = <<"p1", "a2">>
    /\ Len(inflight["r1"].predictions) = 1
    /\ inflight["r2"].pc = "done"
    /\ inflight["r2"].target = <<"p1", "a2">>
    /\ inflight["r2"].outcome.kind = "success"
    /\ Len(inflight["r2"].outcome.time_series) = 1
    /\ inflight["r2"].outcome = RunAlone("r2")

\* The value of camera c at the time of point g of the answered time_series
ContributionAt(c, g) ==
    InterpolationFunc(predictions[c], WindowStart,
                      RSub(outcome.time_series[g].timestamp, RInt(WindowStart)))

\* The sums of the cameras' values at the points of the answered time_series
SumsAtPoints ==
    [g \in 1..Len(outcome.time_series) |->
        RSum([c \in 1..Len(predictions) |-> ContributionAt(c, g)])]

\* C21: every value of an answered time_series is max(0, trunc(y)), y being
\* the mean over the 2h+1 neighbouring points (h = half_moving_avg_size) of
\* the sums of the cameras' unclamped values: the sum is taken first, then
\* the moving average, and the value is truncated and raised to zero last.
C21Theorem ==
    (/\ pc = "answered"
     /\ outcome.kind = "success"
     /\ \E i \in 1..Len(predictions) : has_data(predictions[i]))
    => LET h == request.half_moving_avg_size
           n == Len(outcome.time_series)
           sums == SumsAtPoints
           \* point j, taken as the first point when it lies before it and as
           \* the last when it lies after it
           Near(j) == sums[IF j < 1 THEN 1 ELSE IF j > n THEN n ELSE j]
       IN  \A g \in 1..n :
              outcome.time_series[g].value
                = Max(0, Trunc(RDiv(RSum([k \in 1..(2 * h + 1) |-> Near(g - h + k - 1)]),
                                    RInt(2 * h + 1))))

\* At some point one camera's continued line is below zero and the answered
\* value is positive and below the value of the other camera: the negative
\* value lowered the total.
C21Witness ==
    /\ pc = "answered"
    /\ outcome.kind = "success"
    /\ Len(predictions) = 2
    /\ request.half_moving_avg_size = 0
    /\ \E g \in 1..Len(outcome.time_series) :
          /\ RLess(ContributionAt(1, g), RInt(0))
          /\ outcome.time_series[g].value > 0
          /\ RLess(RInt(outcome.time_series[g].value), ContributionAt(2, g))

\* The target is an area of a stored project that has no camera configuration
ZeroCameraArea ==
    \E d \in DOMAIN ProjectDocs :
       /\ ProjectDocs[d].id = target[1]
       /\ \E a \in DOMAIN ProjectDocs[d].areas :
             /\ ProjectDocs[d].areas[a].id = target[2]
             /\ ProjectDocs[d].areas[a].camera_configs = <<>>

\* C22: an area that exists and has no camera configuration resolves to an
\* area mapping with an empty camera list, and a valid request for it is
\* answered with success, an empty time_series and an empty camera_timestamps.
C22Claim ==
    (pc = "done" /\ ZeroCameraArea)
    => /\ Resolved
       /\ TargetCameras = <<>>
       /\ outcome = Success(<<>>, <<>>)

\* The same for the requests that name their lookback_hours
C22WithLookback ==
    (pc = "done" /\ ZeroCameraArea /\ body.lookback_hours.kind = "float")
    => /\ Resolved
       /\ TargetCameras = <<>>
       /\ outcome = Success(<<>>, <<>>)

\* The model schedules in the opposite order
ReversedSchedules == [i \in 1..Len(schedules) |-> schedules[Len(schedules) + 1 - i]]

\* C23: a camera that passed validate_no_schedule_overlap has at most one
\* model schedule active at every time of day, and the model that
\* get_active_model returns does not depend on the order of its schedules.
C23Claim ==
    /\ pc \in {"camera", "asked"}
         => \A t \in TimesOfDay :
               Cardinality({i \in 1..Len(schedules) : is_active(schedules[i], t)}) <= 1
    /\ pc = "asked"
         => active_model = get_active_model(ReversedSchedules, STANDARD, current_time)

\* The camera configurations of the stored project, each with its area
StoredConfigs ==
    {<<a, k>> : a \in 1..Len(stored_project.areas), k \in ConfigIds} \cap
    {<<a, k>> \in (1..Len(stored_project.areas)) \X ConfigIds :
        k <= Len(stored_project.areas[a].camera_configs)}

ConfigAt(ak) == stored_project.areas[ak[1]].camera_configs[ak[2]]

\* C24: whatever ProjectService methods were called on a project that began
\* empty, every camera configuration of every area names a camera of the
\* project.
C24Claim ==
    \A ak \in StoredConfigs :
       \E i \in 1..Len(stored_project.cameras) :
          stored_project.cameras[i] = ConfigAt(ak).camera_id

\* delete_camera leaves no configuration of the camera it deleted
C24DeleteCamera ==
    \A c \in DOMAIN calls :
       (calls[c].operation.op = "delete_camera" /\ calls[c].at = "modified")
       => \A a \in 1..Len(calls[c].project.areas) :
             \A k \in 1..Len(calls[c].project.areas[a].camera_configs) :
                calls[c].project.areas[a].camera_configs[k].camera_id
                  # calls[c].operation.camera_id

\* C25: whatever ProjectService methods were called, no area has two camera
\* configurations with the same camera_id and position name, and
\* get_camera_mappings lists no camera position twice in an area.
C25Claim ==
    /\ \A ak \in StoredConfigs, bl \in StoredConfigs :
          (/\ ak[1] = bl[1]
           /\ ConfigAt(ak).camera_id = ConfigAt(bl).camera_id
           /\ ConfigAt(ak).position.name = ConfigAt(bl).position.name)
          => ak = bl
    /\ stored_project.exists
         => LET mapping == get_camera_mappings(
                              <<[id |-> "p1", areas |-> stored_project.areas]>>)["p1"]
            IN  \A a \in DOMAIN mapping.areas :
                   \A i, j \in 1..Len(mapping.areas[a].cameras) :
                      mapping.areas[a].cameras[i] = mapping.areas[a].cameras[j] => i = j

\* The call got what a successful call gets
Succeeded(c) == calls[c].at = "returned" /\ calls[c].result \in {"success", "True"}

\* C26: a call requests the cache clear only after its write of the project
\* document succeeded, and once when it succeeds; a call rejected by a check,
\* or whose write found no document, requests none; and a cache clear that
\* returns False leaves the call successful.
C26Claim ==
    \A c \in DOMAIN calls :
       /\ calls[c].clears > 0 => calls[c].found \in {"replaced", "deleted"}
       /\ Succeeded(c) => calls[c].clears = 1
       /\ (calls[c].result \in {"ValueError", "False"} \/ calls[c].found = "not_found")
            => calls[c].clears = 0
       /\ (calls[c].at = "returned" /\ calls[c].cleared = "False") => Succeeded(c)

\* The project holds what the operation adds
Added(o, project) ==
    CASE o.op = "add_camera" -> \E i \in 1..Len(project.cameras) : project.cameras[i] = o.camera_id
      [] o.op = "add_area" -> IndexOfId(project.areas, o.area_id) # 0

\* C27: when two calls that add a camera or an area to the same project run
\* at the same time and both return the project, the stored document holds
\* what each of them added.
C27Claim ==
    (\A c \in DOMAIN calls :
        /\ calls[c].operation.op \in {"add_camera", "add_area"}
        /\ calls[c].at = "returned"
        /\ calls[c].result = "success")
    => \A c \in DOMAIN calls : Added(calls[c].operation, stored_project)

\* The key of a row's counts that _process_camera_query was asked to read
RowKey == IF masking THEN target[2] ELSE "total"

\* The rows of the query result that have a timestamp in the format and a
\* count under the key, by their place in the result
WellFormedRows ==
    {r \in 1..Len(query_results) :
        /\ "timestamp" \in DOMAIN query_results[r]
        /\ query_results[r].timestamp # Unparsable
        /\ "counts" \in DOMAIN query_results[r]
        /\ RowKey \in DOMAIN query_results[r].counts}

\* The i-th of them
WellFormedRow(i) ==
    CHOOSE r \in WellFormedRows : Cardinality({q \in WellFormedRows : q < r}) = i - 1

\* C28: the PredictionData of _process_camera_query has as many dates as
\* counts, dates[i] and counts[i] being the timestamp and the count of one
\* row; a row without the count asked for, without a timestamp or with a
\* timestamp that cannot be parsed adds to neither, so that a camera position
\* with such rows only has no data.
C28Theorem ==
    pc = "processed" =>
      LET pd == predictions[1]
      IN  /\ Len(pd.dates) = Len(pd.counts)
          /\ Len(pd.dates) = Cardinality(WellFormedRows)
          /\ \A i \in 1..Len(pd.dates) :
                /\ pd.dates[i] = query_results[WellFormedRow(i)].timestamp
                /\ pd.counts[i] = query_results[WellFormedRow(i)].counts[RowKey]
          /\ WellFormedRows = {} => ~has_data(pd)

C28Witness ==
    /\ pc = "processed"
    /\ Len(query_results) = 2
    /\ WellFormedRows = {}
    /\ masking
    /\ query_results[1] = [timestamp |-> 15, counts |-> TotalOnly]
    /\ "timestamp" \in DOMAIN query_results[2]
    /\ query_results[2].timestamp = Unparsable
    /\ ~has_data(predictions[1])

\* The timestamps and counts stored for the i-th pair of the area, in the
\* window of the request
StoredFor(i) ==
    LET rows == SelectSeq(samples[area_cps[target[2]][i]],
                          LAMBDA r : /\ WindowStart <= r.timestamp
                                     /\ r.timestamp <= request.end_date)
    IN  << [j \in 1..Len(rows) |-> rows[j].timestamp],
           [j \in 1..Len(rows) |-> rows[j].counts[target[2]]] >>

\* C29: whatever order the fetches of the pairs complete in, the i-th entry
\* of what _retrieve_all_predictions returns pairs the i-th (camera, position)
\* with the data fetched for it, and nothing is returned before every fetch
\* has completed.
C29Theorem ==
    pc = "retrieved" =>
      /\ Len(all_preds) = Len(area_cps[target[2]])
      /\ \A i \in 1..Len(all_preds) :
            /\ all_preds[i][2] = area_cps[target[2]][i]
            /\ all_preds[i][1] = StoredFor(i)
      /\ \A i \in 1..Len(fetches.awaited) : fetches.awaited[i].done

\* The second fetch completed before the first, and the two returned
\* different data
C29Witness ==
    /\ pc = "retrieved"
    /\ fetches.order = <<2, 1>>
    /\ all_preds[1][1] # all_preds[2][1]
    /\ Len(all_preds[1][1][1]) = 1

\* C30: on the same predictions of an area, for the same window and half
\* window, CountAdditionService.__call__ and aggregate_time_series come to the
\* same kind of outcome and, when that is success, to the same timestamps
\* and values.
C30Claim ==
    (pc = "answered" /\ legacy_outcome # NoOutput)
    => /\ legacy_outcome.kind = outcome.kind
       /\ legacy_outcome.status = outcome.status
       /\ outcome.kind = "success"
            => /\ Len(legacy_outcome.predictions_sum) = Len(outcome.time_series)
               /\ \A i \in 1..Len(outcome.time_series) :
                     /\ legacy_outcome.predictions_sum[i].timestamp
                          = outcome.time_series[i].timestamp
                     /\ legacy_outcome.predictions_sum[i].prediction
                          = outcome.time_series[i].value

\* The same for the cameras that all have two samples or more
C30ManySamples ==
    (/\ pc = "answered"
     /\ legacy_outcome # NoOutput
     /\ \A i \in 1..Len(predictions) : Len(predictions[i].dates) >= 2)
    => /\ legacy_outcome.kind = outcome.kind
       /\ legacy_outcome.status = outcome.status
       /\ outcome.kind = "success"
            => /\ Len(legacy_outcome.predictions_sum) = Len(outcome.time_series)
               /\ \A i \in 1..Len(outcome.time_series) :
                     /\ legacy_outcome.predictions_sum[i].timestamp
                          = outcome.time_series[i].timestamp
                     /\ legacy_outcome.predictions_sum[i].prediction
                          = outcome.time_series[i].value
====
